---- MODULE Spec2Model ----
(***************************************************************************)
(* The batch trial-decryption scheduler of zcash_client_backend/src/scan.rs *)
(* (Batch, Tasks/WithUsage, BatchRunner) as a state machine: one caller     *)
(* thread driving a BatchRunner, and the rayon pool running the batches it  *)
(* has submitted.                                                           *)
(***************************************************************************)
EXTENDS Integers, Sequences, FiniteSets, TLC

\* ------------------------------------------------------------------ bounds
\* Most add_outputs calls in one run (each creates one channel).
MaxRegs == 2
\* Largest batch_size_threshold a runner is constructed with.
MaxThreshold == 2
\* Threads of the rayon pool.
NumWorkers == 2

\* Runners constructed, and tasks submitted to their trackers, in a run of
\* several runners.
MaxRunners == 2
MaxSubmitted == 3

\* Most items queued in the channel of a measured receiver.
MaxQueued == 63

\* --------------------------------------------------------------- constants
\* size_of::<Arc<()>>() and size_of::<usize>(): one pointer.
PTR_SIZE == 8
\* size_of_val(&task) for WithUsageTask<Batch>: four Vecs, a usize, an Arc.
TASK_SIZE == 112
\* Heap bytes of one element of each of the four Vecs of a Batch.
ELEM_SIZE == 16
\* usize arithmetic wraps; the width is scaled down to what TLC's integers hold.
USIZE_BITS == 24

UsizeModulus == 2 ^ USIZE_BITS

\* Items in one block of an unbounded crossbeam channel's linked list.
ITEMS_PER_BLOCK == 31
\* size_of::<OutputItem<A, D>>(): an output index and a decrypted note.
ITEM_SIZE == 96
\* size_of::<AtomicUsize>().
ATOMIC_USIZE_SIZE == 8

\* ------------------------------------------------------------ input domains
\* BlockHash values: "B0" stands for the all-zeros hash (no block).
BlockTags == {"B0", "B1"}
TxIds == {"T1", "T2"}
\* The transactions a caller registers: T1 seen in two blocks, T2 in one.
ResultKeys == { <<"B0", "T1">>, <<"B1", "T1">>, <<"B0", "T2">> }
\* The output lists a caller passes to add_outputs, each output given by the
\* incoming viewing key it is encrypted to; "kx" is a key the runner never holds.
OutputLists == { << >>, <<"k1">>, <<"kx", "k2", "k1">> }
\* The (tag, ivk) pairs the runner is constructed with.
KeyPairs == << <<"a1", "k1">>, <<"a2", "k2">> >>
\* The batch_size_threshold values a runner is constructed with.
Thresholds == {0, MaxThreshold}

NoChan == 0
None == [none |-> TRUE]
NoCall == [block_tag |-> "", txid |-> "", chan |-> NoChan, map |-> << >>]

VARIABLES
    batch_size_threshold, \* BatchRunner.batch_size_threshold
    acc,                  \* BatchRunner.acc: the accumulating Batch
    strategy,             \* the Tasks implementation T: "Untracked" (()) or "WithUsage"
    running_usage,        \* WithUsage.running_usage (the shared AtomicUsize)
    pending_results,      \* BatchRunner.pending_results: ResultKey -> channel of its receiver
    chans,                \* the crossbeam channels created so far, one per add_outputs call
    tasks,                \* the tasks handed to rayon::spawn_fifo, in submission order
    alive,                \* FALSE once the BatchRunner has been dropped
    pc,                   \* the caller: "idle", or "collecting" inside collect_results
    cur                   \* the collect_results call in progress: its arguments, its
                          \* receiver's channel, and the map collected so far

vars == << batch_size_threshold, acc, strategy, running_usage, pending_results,
           chans, tasks, alive, pc, cur >>

\* ---------------------------------------------------------------- channels
\* A channel whose sender is moved into the first replier instead of cloned.
NewChannel_OneSender(key, kinds, n) ==
    [key |-> key, outs |-> kinds, queue |-> << >>,
     senders |-> IF n > 0 THEN 1 ELSE 0, rx |-> TRUE, sent |-> << >>]

\* channel::unbounded() whose original Sender outlives add_outputs: one more
\* sender than repliers.
NewChannel_CallerKeepsSender(key, kinds, n) ==
    [key |-> key, outs |-> kinds, queue |-> << >>, senders |-> n + 1,
     rx |-> TRUE, sent |-> << >>]

\* channel::unbounded(): an empty queue, one receiver; `n` senders remain once
\* the caller's own sender is dropped.  key and outs record the add_outputs call
\* that created the channel; sent logs every item ever sent on it.
NewChannel(key, kinds, n) ==
    [key |-> key, outs |-> kinds, queue |-> << >>, senders |-> n,
     rx |-> TRUE, sent |-> << >>]

\* Dropping the Receiver of channel c (NoChan: nothing to drop).
DropReceiver(cs, c) ==
    IF c = NoChan THEN cs ELSE [cs EXCEPT ![c].rx = FALSE]

\* How many of the repliers hold a Sender of channel c.
SendersIn(repliers, c) ==
    Cardinality({ i \in DOMAIN repliers : repliers[i].value = c })

\* Dropping a sequence of OutputRepliers drops the Sender each one holds.
DropRepliers(cs, repliers) ==
    [c \in DOMAIN cs |->
        [cs[c] EXCEPT !.senders = cs[c].senders - SendersIn(repliers, c)]]

\* Sender::send on an unbounded channel with a live receiver.
Send(cs, c, item) ==
    [cs EXCEPT ![c].queue = Append(@, item), ![c].sent = Append(@, item)]

\* ------------------------------------------------------------------- Batch
BatchNew(tags, ivks) ==
    [tags |-> tags, ivks |-> ivks, outputs |-> << >>, repliers |-> << >>]

BatchIsEmpty(b) == b.outputs = << >>

\* Batch::add_outputs pushing one replier per call instead of one per output.
BatchAddOutputs_OneReplier(b, outputs, replier) ==
    [b EXCEPT
        !.outputs = @ \o outputs,
        !.repliers = Append(@, [output_index |-> 0, value |-> replier])]

\* Batch::add_outputs assigning the new outputs and repliers to the vectors
\* instead of extending them.
BatchAddOutputs_Replace(b, outputs, replier) ==
    [b EXCEPT
        !.outputs = outputs,
        !.repliers = [i \in 1..Len(outputs) |->
                         [output_index |-> i - 1, value |-> replier]]]

\* Batch::add_outputs numbering the repliers from 1.
BatchAddOutputs_OneBased(b, outputs, replier) ==
    [b EXCEPT
        !.outputs = @ \o outputs,
        !.repliers = @ \o [i \in 1..Len(outputs) |->
                              [output_index |-> i, value |-> replier]]]

\* Batch::add_outputs: one (domain, output) pair and one OutputReplier per
\* output, the replier tagged with the output's position in `outputs`.
BatchAddOutputs(b, outputs, replier) ==
    [b EXCEPT
        !.outputs = @ \o outputs,
        !.repliers = @ \o [i \in 1..Len(outputs) |->
                              [output_index |-> i - 1, value |-> replier]]]

\* Vec::dynamic_usage of the four vectors of a Batch.
BatchDynamicUsage(b) ==
    ELEM_SIZE * (Len(b.tags) + Len(b.ivks) + Len(b.outputs) + Len(b.repliers))

\* Trial decryption that succeeds for every output, under the first key when
\* no key matches.
TryDecrypt_Always(ivks, output) ==
    LET hits == { k \in DOMAIN ivks : ivks[k] = output.ivk }
    IN  [none |-> FALSE,
         note |-> << output.reg, output.pos >>,
         recipient |-> output.ivk,
         ivk_idx |-> IF hits = {} THEN 1
                     ELSE CHOOSE k \in hits : \A j \in hits : k <= j]

\* batch::try_compact_note_decryption for one output: the first ivk that
\* decrypts it, with the note and recipient it recovers, or None.
TryDecrypt(ivks, output) ==
    LET hits == { k \in DOMAIN ivks : ivks[k] = output.ivk }
    IN  IF hits = {} THEN None
        ELSE [none |-> FALSE,
              note |-> << output.reg, output.pos >>,
              recipient |-> output.ivk,
              ivk_idx |-> CHOOSE k \in hits : \A j \in hits : k <= j]

DecryptionResults(ivks, outputs) ==
    [i \in DOMAIN outputs |-> TryDecrypt(ivks, outputs[i])]

\* ------------------------------------------------------------------- Tasks
\* WithUsage::add_task computes own_usage; () tracks nothing.
OwnUsage(item) == PTR_SIZE + TASK_SIZE + BatchDynamicUsage(item)

\* add_task whose untracked variant hands on a fresh batch in place of the item.
AddTask_UntrackedFresh(strat, item) ==
    [item |-> IF strat = "WithUsage" THEN item
              ELSE BatchNew(item.tags, item.ivks),
     own_usage |-> IF strat = "WithUsage" THEN OwnUsage(item) ELSE 0,
     state |-> "queued", idx |-> 0, broke |-> FALSE]

AddTask(strat, item) ==
    [item |-> item,
     own_usage |-> IF strat = "WithUsage" THEN OwnUsage(item) ELSE 0,
     state |-> "queued", idx |-> 0, broke |-> FALSE]

FetchAdd(v, n) == (v + n) % UsizeModulus
FetchSub(v, n) == (v - n + UsizeModulus) % UsizeModulus

\* --------------------------------------------------------------- the runner
\* flush building the fresh accumulator with the keys in reverse order.
Flushed_ReversedKeys(a, ts, usage) ==
    IF ~BatchIsEmpty(a)
    THEN LET task == AddTask(strategy, a)
             n == Len(a.tags)
         IN  [acc |-> BatchNew([i \in 1..n |-> a.tags[n + 1 - i]],
                               [i \in 1..n |-> a.ivks[n + 1 - i]]),
              tasks |-> Append(ts, task),
              usage |-> FetchAdd(usage, task.own_usage)]
    ELSE [acc |-> a, tasks |-> ts, usage |-> usage]

\* flush submitting the fresh batch and keeping the accumulator (no swap).
Flushed_NoSwap(a, ts, usage) ==
    IF ~BatchIsEmpty(a)
    THEN LET task == AddTask(strategy, BatchNew(a.tags, a.ivks))
         IN  [acc |-> a,
              tasks |-> Append(ts, task),
              usage |-> FetchAdd(usage, task.own_usage)]
    ELSE [acc |-> a, tasks |-> ts, usage |-> usage]

\* flush without the is_empty test.
Flushed_Always(a, ts, usage) ==
    LET task == AddTask(strategy, a)
    IN  [acc |-> BatchNew(a.tags, a.ivks),
         tasks |-> Append(ts, task),
         usage |-> FetchAdd(usage, task.own_usage)]

\* add_task charging the batch's own heap usage to the counter while the
\* task records the full footprint.
Flushed_ChargesItemOnly(a, ts, usage) ==
    IF ~BatchIsEmpty(a)
    THEN LET task == AddTask(strategy, a)
         IN  [acc |-> BatchNew(a.tags, a.ivks),
              tasks |-> Append(ts, task),
              usage |-> FetchAdd(usage, BatchDynamicUsage(a))]
    ELSE [acc |-> a, tasks |-> ts, usage |-> usage]

\* BatchRunner::flush applied to an accumulator, the pool's queue and the
\* usage counter.
Flushed(a, ts, usage) ==
    IF ~BatchIsEmpty(a)
    THEN LET task == AddTask(strategy, a)
         IN  [acc |-> BatchNew(a.tags, a.ivks),
              tasks |-> Append(ts, task),
              usage |-> FetchAdd(usage, task.own_usage)]
    ELSE [acc |-> a, tasks |-> ts, usage |-> usage]

\* The threshold test taking a threshold of zero for "never by size".
ThresholdReached_NonZero(a) ==
    batch_size_threshold > 0 /\ Len(a.outputs) >= batch_size_threshold

\* The threshold test with > for >=.
ThresholdReached_Gt(a) == Len(a.outputs) > batch_size_threshold

\* The test of add_outputs that triggers a flush.
ThresholdReached(a) == Len(a.outputs) >= batch_size_threshold

Init ==
    /\ batch_size_threshold \in Thresholds
    /\ acc = BatchNew([i \in DOMAIN KeyPairs |-> KeyPairs[i][1]],
                      [i \in DOMAIN KeyPairs |-> KeyPairs[i][2]])
    /\ strategy = "WithUsage"
    /\ running_usage = 0
    /\ pending_results = [k \in ResultKeys |-> NoChan]
    /\ chans = << >>
    /\ tasks = << >>
    /\ alive = TRUE
    /\ pc = "idle"
    /\ cur = NoCall

\* add_outputs registering the receiver with entry().or_insert(): a receiver
\* already pending for the key stays and the new one is dropped.
AddOutputs_KeepFirst(block_tag, txid, kinds) ==
    /\ alive /\ pc = "idle"
    /\ << block_tag, txid >> \in ResultKeys
    /\ Len(chans) < MaxRegs
    /\ LET c == Len(chans) + 1
           key == << block_tag, txid >>
           outputs == [i \in DOMAIN kinds |->
                          [ivk |-> kinds[i], reg |-> c, pos |-> i - 1]]
           acc1 == BatchAddOutputs(acc, outputs, c)
           new == NewChannel(key, kinds, Len(kinds))
           chans1 == Append(chans, IF pending_results[key] = NoChan THEN new
                                   ELSE [new EXCEPT !.rx = FALSE])
           r == IF ThresholdReached(acc1)
                THEN Flushed(acc1, tasks, running_usage)
                ELSE [acc |-> acc1, tasks |-> tasks, usage |-> running_usage]
       IN  /\ acc' = r.acc
           /\ tasks' = r.tasks
           /\ running_usage' = r.usage
           /\ chans' = chans1
           /\ pending_results' = IF pending_results[key] = NoChan
                                 THEN [pending_results EXCEPT ![key] = c]
                                 ELSE pending_results
    /\ UNCHANGED << batch_size_threshold, strategy, alive, pc, cur >>

\* add_outputs testing the threshold before the outputs are appended.
AddOutputs_TestBefore(block_tag, txid, kinds) ==
    /\ alive /\ pc = "idle"
    /\ << block_tag, txid >> \in ResultKeys
    /\ Len(chans) < MaxRegs
    /\ LET c == Len(chans) + 1
           key == << block_tag, txid >>
           outputs == [i \in DOMAIN kinds |->
                          [ivk |-> kinds[i], reg |-> c, pos |-> i - 1]]
           acc1 == BatchAddOutputs(acc, outputs, c)
           chans1 == Append(DropReceiver(chans, pending_results[key]),
                            NewChannel(key, kinds, Len(kinds)))
           r == IF ThresholdReached(acc)
                THEN Flushed(acc1, tasks, running_usage)
                ELSE [acc |-> acc1, tasks |-> tasks, usage |-> running_usage]
       IN  /\ acc' = r.acc
           /\ tasks' = r.tasks
           /\ running_usage' = r.usage
           /\ chans' = chans1
           /\ pending_results' = [pending_results EXCEPT ![key] = c]
    /\ UNCHANGED << batch_size_threshold, strategy, alive, pc, cur >>

\* add_outputs taking a call with no outputs as a request to flush.
Register_EmptyFlushes(block_tag, txid, kinds) ==
    /\ alive /\ pc = "idle"
    /\ << block_tag, txid >> \in ResultKeys
    /\ LET c == Len(chans) + 1
           key == << block_tag, txid >>
           outputs == [i \in DOMAIN kinds |->
                          [ivk |-> kinds[i], reg |-> c, pos |-> i - 1]]
           acc1 == BatchAddOutputs(acc, outputs, c)
           chans1 == Append(DropReceiver(chans, pending_results[key]),
                            NewChannel(key, kinds, Len(kinds)))
           r == IF ThresholdReached(acc1) \/ kinds = << >>
                THEN Flushed(acc1, tasks, running_usage)
                ELSE [acc |-> acc1, tasks |-> tasks, usage |-> running_usage]
       IN  /\ acc' = r.acc
           /\ tasks' = r.tasks
           /\ running_usage' = r.usage
           /\ chans' = chans1
           /\ pending_results' = [pending_results EXCEPT ![key] = c]
    /\ UNCHANGED << batch_size_threshold, strategy, alive, pc, cur >>

\* BatchRunner::add_outputs(block_tag, txid, domain, outputs); kinds[i] is the
\* ivk that outputs[i] is encrypted to.
Register(block_tag, txid, kinds) ==
    /\ alive /\ pc = "idle"
    /\ << block_tag, txid >> \in ResultKeys
    /\ LET c == Len(chans) + 1
           key == << block_tag, txid >>
           outputs == [i \in DOMAIN kinds |->
                          [ivk |-> kinds[i], reg |-> c, pos |-> i - 1]]
           acc1 == BatchAddOutputs(acc, outputs, c)
           chans1 == Append(DropReceiver(chans, pending_results[key]),
                            NewChannel(key, kinds, Len(kinds)))
           r == IF ThresholdReached(acc1)
                THEN Flushed(acc1, tasks, running_usage)
                ELSE [acc |-> acc1, tasks |-> tasks, usage |-> running_usage]
       IN  /\ acc' = r.acc
           /\ tasks' = r.tasks
           /\ running_usage' = r.usage
           /\ chans' = chans1
           /\ pending_results' = [pending_results EXCEPT ![key] = c]
    /\ UNCHANGED << batch_size_threshold, strategy, alive, pc, cur >>

\* add_outputs dispatching batches of batch_size_threshold outputs: when the
\* accumulator reaches the threshold its first batch_size_threshold outputs
\* are submitted and the rest stay accumulated.
AddOutputs_Chunked(block_tag, txid, kinds) ==
    /\ Len(chans) < MaxRegs
    /\ alive /\ pc = "idle"
    /\ << block_tag, txid >> \in ResultKeys
    /\ LET c == Len(chans) + 1
           key == << block_tag, txid >>
           outputs == [i \in DOMAIN kinds |->
                          [ivk |-> kinds[i], reg |-> c, pos |-> i - 1]]
           acc1 == BatchAddOutputs(acc, outputs, c)
           n == Len(acc1.outputs)
           th == IF batch_size_threshold = 0 THEN n ELSE batch_size_threshold
           chunk == [acc1 EXCEPT !.outputs = SubSeq(@, 1, th),
                                 !.repliers = SubSeq(@, 1, th)]
           r == IF ThresholdReached(acc1)
                THEN Flushed(chunk, tasks, running_usage)
                ELSE [acc |-> acc1, tasks |-> tasks, usage |-> running_usage]
       IN  /\ acc' = IF ThresholdReached(acc1)
                      THEN [r.acc EXCEPT
                              !.outputs = SubSeq(acc1.outputs, th + 1, n),
                              !.repliers = SubSeq(acc1.repliers, th + 1, n)]
                      ELSE r.acc
           /\ tasks' = r.tasks
           /\ running_usage' = r.usage
           /\ chans' = Append(DropReceiver(chans, pending_results[key]),
                              NewChannel(key, kinds, Len(kinds)))
           /\ pending_results' = [pending_results EXCEPT ![key] = c]
    /\ UNCHANGED << batch_size_threshold, strategy, alive, pc, cur >>

\* An add_outputs call, while the run has registrations left.
AddOutputs(block_tag, txid, kinds) ==
    /\ Len(chans) < MaxRegs
    /\ Register(block_tag, txid, kinds)

\* flush that waits for the pool to finish what was submitted before.
Flush_Waits ==
    /\ alive /\ pc = "idle"
    /\ \A t \in DOMAIN tasks : tasks[t].state = "done"
    /\ LET r == Flushed(acc, tasks, running_usage)
       IN  /\ acc' = r.acc
           /\ tasks' = r.tasks
           /\ running_usage' = r.usage
    /\ UNCHANGED << batch_size_threshold, strategy, pending_results, chans,
                    alive, pc, cur >>

\* flush clearing pending_results: every pending receiver is removed and
\* dropped.
Flush_ClearsPending ==
    /\ alive /\ pc = "idle"
    /\ LET r == Flushed(acc, tasks, running_usage)
       IN  /\ acc' = r.acc
           /\ tasks' = r.tasks
           /\ running_usage' = r.usage
    /\ pending_results' = [k \in ResultKeys |-> NoChan]
    /\ chans' = [c \in DOMAIN chans |->
                   [chans[c] EXCEPT
                      !.rx = IF \E k \in ResultKeys : pending_results[k] = c
                             THEN FALSE ELSE @]]
    /\ UNCHANGED << batch_size_threshold, strategy, alive, pc, cur >>

\* BatchRunner::flush
Flush ==
    /\ alive /\ pc = "idle"
    /\ LET r == Flushed(acc, tasks, running_usage)
       IN  /\ acc' = r.acc
           /\ tasks' = r.tasks
           /\ running_usage' = r.usage
    /\ UNCHANGED << batch_size_threshold, strategy, pending_results, chans,
                    alive, pc, cur >>

\* collect_results looking the receiver up by txid alone.
CollectCall_IgnoresBlock(block_tag, txid) ==
    /\ alive /\ pc = "idle"
    /\ << block_tag, txid >> \in ResultKeys
    /\ LET key == << "B0", txid >>
           c == pending_results[key]
       IN  IF c = NoChan
           THEN UNCHANGED << pending_results, pc, cur >>
           ELSE /\ pending_results' = [pending_results EXCEPT ![key] = NoChan]
                /\ pc' = "collecting"
                /\ cur' = [block_tag |-> block_tag, txid |-> txid, chan |-> c,
                            map |-> << >>]
    /\ UNCHANGED << batch_size_threshold, acc, strategy, running_usage, chans,
                    tasks, alive >>

\* collect_results with unwrap() for unwrap_or_default(): a key with no
\* receiver makes the caller panic.
CollectCall_Unwrap(block_tag, txid) ==
    /\ alive /\ pc = "idle"
    /\ << block_tag, txid >> \in ResultKeys
    /\ LET key == << block_tag, txid >>
           c == pending_results[key]
       IN  IF c = NoChan
           THEN pc' = "panicked" /\ UNCHANGED << pending_results, cur >>
           ELSE /\ pending_results' = [pending_results EXCEPT ![key] = NoChan]
                /\ pc' = "collecting"
                /\ cur' = [block_tag |-> block_tag, txid |-> txid, chan |-> c,
                            map |-> << >>]
    /\ UNCHANGED << batch_size_threshold, acc, strategy, running_usage, chans,
                    tasks, alive >>

\* collect_results looking the receiver up (get) instead of removing it: the
\* entry stays in pending_results.
CollectCall_Get(block_tag, txid) ==
    /\ alive /\ pc = "idle"
    /\ << block_tag, txid >> \in ResultKeys
    /\ LET key == << block_tag, txid >>
           c == pending_results[key]
       IN  IF c = NoChan
           THEN UNCHANGED << pending_results, pc, cur >>
           ELSE /\ pending_results' = pending_results
                /\ pc' = "collecting"
                /\ cur' = [block_tag |-> block_tag, txid |-> txid, chan |-> c,
                            map |-> << >>]
    /\ UNCHANGED << batch_size_threshold, acc, strategy, running_usage, chans,
                    tasks, alive >>

\* collect_results flushing the accumulator before it waits.
CollectCall_FlushesFirst(block_tag, txid) ==
    /\ alive /\ pc = "idle"
    /\ << block_tag, txid >> \in ResultKeys
    /\ LET key == << block_tag, txid >>
           c == pending_results[key]
           r == Flushed(acc, tasks, running_usage)
       IN  /\ acc' = r.acc
           /\ tasks' = r.tasks
           /\ running_usage' = r.usage
           /\ IF c = NoChan
              THEN UNCHANGED << pending_results, pc, cur >>
              ELSE /\ pending_results' = [pending_results EXCEPT ![key] = NoChan]
                   /\ pc' = "collecting"
                   /\ cur' = [block_tag |-> block_tag, txid |-> txid,
                               chan |-> c, map |-> << >>]
    /\ UNCHANGED << batch_size_threshold, strategy, chans, alive >>

\* BatchRunner::collect_results, up to the first recv: the receiver is removed
\* from pending_results; with none there the call returns the empty map.
CollectCall(block_tag, txid) ==
    /\ alive /\ pc = "idle"
    /\ << block_tag, txid >> \in ResultKeys
    /\ LET key == << block_tag, txid >>
           c == pending_results[key]
       IN  IF c = NoChan
           THEN UNCHANGED << pending_results, pc, cur >>
           ELSE /\ pending_results' = [pending_results EXCEPT ![key] = NoChan]
                /\ pc' = "collecting"
                /\ cur' = [block_tag |-> block_tag, txid |-> txid, chan |-> c,
                            map |-> << >>]
    /\ UNCHANGED << batch_size_threshold, acc, strategy, running_usage, chans,
                    tasks, alive >>

\* HashMap insertion of ((txid, output_index), value).
MapInsert(m, k, v) ==
    [x \in (DOMAIN m) \cup {k} |-> IF x = k THEN v ELSE m[x]]

\* The collected map keyed by the transaction alone: a later item of the
\* transaction takes the place of an earlier one.
CollectRecv_DropsIndex ==
    /\ pc = "collecting"
    /\ chans[cur.chan].queue # << >>
    /\ LET item == Head(chans[cur.chan].queue)
       IN  cur' = [cur EXCEPT
                     !.map = MapInsert(@, << cur.txid, 0 >>, item.value)]
    /\ chans' = [chans EXCEPT ![cur.chan].queue = Tail(@)]
    /\ UNCHANGED << batch_size_threshold, acc, strategy, running_usage,
                    pending_results, tasks, alive, pc >>

\* collect_results receiving one item (recv) instead of iterating: after the
\* first item the receiver is dropped and the call returns.
CollectRecv_Once ==
    /\ pc = "collecting"
    /\ chans[cur.chan].queue # << >>
    /\ chans' = DropReceiver([chans EXCEPT ![cur.chan].queue = Tail(@)],
                             cur.chan)
    /\ cur' = NoCall
    /\ pc' = "idle"
    /\ UNCHANGED << batch_size_threshold, acc, strategy, running_usage,
                    pending_results, tasks, alive >>

\* One iteration of rx.into_iter(): an item is received and collected.
CollectRecv ==
    /\ pc = "collecting"
    /\ chans[cur.chan].queue # << >>
    /\ LET item == Head(chans[cur.chan].queue)
       IN  cur' = [cur EXCEPT
                     !.map = MapInsert(@, << cur.txid, item.output_index >>,
                                       item.value)]
    /\ chans' = [chans EXCEPT ![cur.chan].queue = Tail(@)]
    /\ UNCHANGED << batch_size_threshold, acc, strategy, running_usage,
                    pending_results, tasks, alive, pc >>

\* collect_results returning once its channel is empty and no pool thread is
\* inside a batch, whatever senders are left.
CollectReturn_NoneRunning ==
    /\ pc = "collecting"
    /\ chans[cur.chan].queue = << >>
    /\ \A t \in DOMAIN tasks : tasks[t].state # "running"
    /\ chans' = DropReceiver(chans, cur.chan)
    /\ cur' = NoCall
    /\ pc' = "idle"
    /\ UNCHANGED << batch_size_threshold, acc, strategy, running_usage,
                    pending_results, tasks, alive >>

\* collect_results returning as soon as the channel is empty (try_iter).
CollectReturn_Early ==
    /\ pc = "collecting"
    /\ chans[cur.chan].queue = << >>
    /\ chans' = DropReceiver(chans, cur.chan)
    /\ cur' = NoCall
    /\ pc' = "idle"
    /\ UNCHANGED << batch_size_threshold, acc, strategy, running_usage,
                    pending_results, tasks, alive >>

\* The iterator ends: the channel is empty and disconnected.  The receiver is
\* dropped and collect_results returns the map.
CollectReturn ==
    /\ pc = "collecting"
    /\ chans[cur.chan].queue = << >>
    /\ chans[cur.chan].senders = 0
    /\ chans' = DropReceiver(chans, cur.chan)
    /\ cur' = NoCall
    /\ pc' = "idle"
    /\ UNCHANGED << batch_size_threshold, acc, strategy, running_usage,
                    pending_results, tasks, alive >>

\* The BatchRunner is dropped: the accumulator with its repliers and every
\* pending receiver go with it.
DropRunner ==
    /\ alive /\ pc = "idle"
    /\ alive' = FALSE
    /\ chans' = [c \in DOMAIN chans |->
                   [chans[c] EXCEPT
                      !.senders = @ - SendersIn(acc.repliers, c),
                      !.rx = IF \E k \in ResultKeys : pending_results[k] = c
                             THEN FALSE ELSE @]]
    /\ acc' = [acc EXCEPT !.outputs = << >>, !.repliers = << >>]
    /\ pending_results' = [k \in ResultKeys |-> NoChan]
    /\ UNCHANGED << batch_size_threshold, strategy, running_usage, tasks, pc, cur >>

\* ------------------------------------------------------------ the rayon pool
Running == { t \in DOMAIN tasks : tasks[t].state = "running" }

\* A pool thread takes the oldest queued job and enters Batch::run: the batch
\* is taken apart and try_compact_note_decryption is evaluated.
TaskStart(t) ==
    /\ tasks[t].state = "queued"
    /\ \A u \in 1..(t - 1) : tasks[u].state # "queued"
    /\ Cardinality(Running) < NumWorkers
    /\ tasks' = [tasks EXCEPT ![t].state = "running", ![t].idx = 1]
    /\ UNCHANGED << batch_size_threshold, acc, strategy, running_usage,
                    pending_results, chans, alive, pc, cur >>

\* RunOutput with the tag of the first key whatever key decrypted the output.
RunOutput_FirstTag(cs, b, i) ==
    LET res == DecryptionResults(b.ivks, b.outputs)[i]
        replier == b.repliers[i]
        c == replier.value
        result == [output_index |-> replier.output_index,
                   value |-> [ivk_tag |-> b.tags[1],
                              recipient |-> res.recipient,
                              note |-> res.note]]
    IN  IF res = None
        THEN [ok |-> TRUE, chans |-> DropRepliers(cs, << replier >>)]
        ELSE IF cs[c].rx
        THEN [ok |-> TRUE,
              chans |-> DropRepliers(Send(cs, c, result), << replier >>)]
        ELSE [ok |-> FALSE,
              chans |-> DropRepliers(cs, SubSeq(b.repliers, i, Len(b.repliers)))]

\* RunOutput sending each result twice.
RunOutput_SendTwice(cs, b, i) ==
    LET res == DecryptionResults(b.ivks, b.outputs)[i]
        replier == b.repliers[i]
        c == replier.value
        result == [output_index |-> replier.output_index,
                   value |-> [ivk_tag |-> b.tags[res.ivk_idx],
                              recipient |-> res.recipient,
                              note |-> res.note]]
    IN  IF res = None
        THEN [ok |-> TRUE, chans |-> DropRepliers(cs, << replier >>)]
        ELSE IF cs[c].rx
        THEN [ok |-> TRUE,
              chans |-> DropRepliers(Send(Send(cs, c, result), c, result),
                                     << replier >>)]
        ELSE [ok |-> FALSE,
              chans |-> DropRepliers(cs, SubSeq(b.repliers, i, Len(b.repliers)))]

\* RunOutput keeping the replier of an output that did not decrypt.
RunOutput_KeepsSender(cs, b, i) ==
    LET res == DecryptionResults(b.ivks, b.outputs)[i]
        replier == b.repliers[i]
        c == replier.value
        result == [output_index |-> replier.output_index,
                   value |-> [ivk_tag |-> b.tags[res.ivk_idx],
                              recipient |-> res.recipient,
                              note |-> res.note]]
    IN  IF res = None
        THEN [ok |-> TRUE, chans |-> cs]
        ELSE IF cs[c].rx
        THEN [ok |-> TRUE,
              chans |-> DropRepliers(Send(cs, c, result), << replier >>)]
        ELSE [ok |-> FALSE,
              chans |-> DropRepliers(cs, SubSeq(b.repliers, i, Len(b.repliers)))]

\* The channels after one iteration of the loop of Batch::run over output i of
\* batch b; ok is FALSE when the send failed and the loop is left.
RunOutput(cs, b, i) ==
    LET res == DecryptionResults(b.ivks, b.outputs)[i]
        replier == b.repliers[i]
        c == replier.value
        result == [output_index |-> replier.output_index,
                   value |-> [ivk_tag |-> b.tags[res.ivk_idx],
                              recipient |-> res.recipient,
                              note |-> res.note]]
    IN  IF res = None
        THEN [ok |-> TRUE, chans |-> DropRepliers(cs, << replier >>)]
        ELSE IF cs[c].rx
        THEN [ok |-> TRUE,
              chans |-> DropRepliers(Send(cs, c, result), << replier >>)]
        ELSE [ok |-> FALSE,
              chans |-> DropRepliers(cs, SubSeq(b.repliers, i, Len(b.repliers)))]

\* The loop of Batch::run going on to the next output after a failed send
\* (continue for break).
TaskStep_NoBreak(t) ==
    /\ tasks[t].state = "running"
    /\ tasks[t].idx <= Len(tasks[t].item.outputs)
    /\ LET b == tasks[t].item
           r == RunOutput(chans, b, tasks[t].idx)
       IN  /\ chans' = IF r.ok THEN r.chans
                       ELSE DropRepliers(chans, << b.repliers[tasks[t].idx] >>)
           /\ tasks' = IF r.ok
                       THEN [tasks EXCEPT ![t].idx = @ + 1]
                       ELSE [tasks EXCEPT ![t].idx = @ + 1, ![t].broke = TRUE]
    /\ UNCHANGED << batch_size_threshold, acc, strategy, running_usage,
                    pending_results, alive, pc, cur >>

\* The loop of Batch::run trying the same send again when it fails.
TaskStep_RetrySend(t) ==
    /\ tasks[t].state = "running"
    /\ tasks[t].idx <= Len(tasks[t].item.outputs)
    /\ LET b == tasks[t].item
           r == RunOutput(chans, b, tasks[t].idx)
       IN  /\ chans' = IF r.ok THEN r.chans ELSE chans
           /\ tasks' = IF r.ok
                       THEN [tasks EXCEPT ![t].idx = @ + 1]
                       ELSE tasks
    /\ UNCHANGED << batch_size_threshold, acc, strategy, running_usage,
                    pending_results, alive, pc, cur >>

\* One iteration of the loop of Batch::run.
TaskStep(t) ==
    /\ tasks[t].state = "running"
    /\ tasks[t].idx <= Len(tasks[t].item.outputs)
    /\ LET b == tasks[t].item
           r == RunOutput(chans, b, tasks[t].idx)
       IN  /\ chans' = r.chans
           /\ tasks' = IF r.ok
                       THEN [tasks EXCEPT ![t].idx = @ + 1]
                       ELSE [tasks EXCEPT ![t].idx = Len(b.outputs) + 1,
                                          ![t].broke = TRUE]
    /\ UNCHANGED << batch_size_threshold, acc, strategy, running_usage,
                    pending_results, alive, pc, cur >>

\* WithUsageTask::run giving back the usage measured when the run has ended,
\* the batch's vectors consumed, instead of the recorded own_usage.
TaskFinish_Remeasured(t) ==
    /\ tasks[t].state = "running"
    /\ tasks[t].idx > Len(tasks[t].item.outputs)
    /\ tasks' = [tasks EXCEPT ![t].state = "done"]
    /\ running_usage' = IF strategy = "WithUsage"
                        THEN FetchSub(running_usage, PTR_SIZE + TASK_SIZE)
                        ELSE running_usage
    /\ UNCHANGED << batch_size_threshold, acc, strategy, pending_results,
                    chans, alive, pc, cur >>

\* Batch::run returns; WithUsageTask::run then gives its usage back.
TaskFinish(t) ==
    /\ tasks[t].state = "running"
    /\ tasks[t].idx > Len(tasks[t].item.outputs)
    /\ tasks' = [tasks EXCEPT ![t].state = "done"]
    /\ running_usage' = IF strategy = "WithUsage"
                        THEN FetchSub(running_usage, tasks[t].own_usage)
                        ELSE running_usage
    /\ UNCHANGED << batch_size_threshold, acc, strategy, pending_results,
                    chans, alive, pc, cur >>

Next ==
    \/ \E b \in BlockTags, x \in TxIds, kinds \in OutputLists :
          AddOutputs(b, x, kinds)
    \/ Flush
    \/ \E b \in BlockTags, x \in TxIds : CollectCall(b, x)
    \/ CollectRecv
    \/ CollectReturn
    \/ DropRunner
    \/ \E t \in DOMAIN tasks : TaskStart(t)
    \/ \E t \in DOMAIN tasks : TaskStep(t)
    \/ \E t \in DOMAIN tasks : TaskFinish(t)

Spec == Init /\ [][Next]_vars

\* The threads of the rayon pool keep taking queued jobs and running them;
\* nothing obliges the caller to make any call.
FairSpec ==
    /\ Spec
    /\ WF_vars(\E t \in DOMAIN tasks : TaskStart(t))
    /\ WF_vars(\E t \in DOMAIN tasks : TaskStep(t))
    /\ WF_vars(\E t \in DOMAIN tasks : TaskFinish(t))

\* ------------------------------------------------------- either task strategy
\* The implementations of Tasks: () and WithUsage.
Strategies == {"Untracked", "WithUsage"}

\* BatchRunner::new for either strategy, with the largest threshold.
StrategyInit ==
    /\ batch_size_threshold = MaxThreshold
    /\ acc = BatchNew([i \in DOMAIN KeyPairs |-> KeyPairs[i][1]],
                      [i \in DOMAIN KeyPairs |-> KeyPairs[i][2]])
    /\ strategy \in Strategies
    /\ running_usage = 0
    /\ pending_results = [k \in ResultKeys |-> NoChan]
    /\ chans = << >>
    /\ tasks = << >>
    /\ alive = TRUE
    /\ pc = "idle"
    /\ cur = NoCall

StrategySpec == StrategyInit /\ [][Next]_vars

\* ------------------------------------------- a re-registration among others
\* The threshold that the third output registered reaches.
BystanderThreshold == 3

\* The add_outputs calls of the caller, in order: three transactions of one
\* output each, which make one batch, and then the second transaction again,
\* with no outputs.
BystanderScript ==
    << [key |-> <<"B0", "T2">>, kinds |-> <<"k1">>],
       [key |-> <<"B0", "T1">>, kinds |-> <<"k2">>],
       [key |-> <<"B1", "T1">>, kinds |-> <<"k1">>],
       [key |-> <<"B0", "T1">>, kinds |-> << >>] >>

\* BatchRunner::new with the two keys and BystanderThreshold.
BystanderInit ==
    /\ batch_size_threshold = BystanderThreshold
    /\ acc = BatchNew([i \in DOMAIN KeyPairs |-> KeyPairs[i][1]],
                      [i \in DOMAIN KeyPairs |-> KeyPairs[i][2]])
    /\ strategy = "WithUsage"
    /\ running_usage = 0
    /\ pending_results = [k \in ResultKeys |-> NoChan]
    /\ chans = << >>
    /\ tasks = << >>
    /\ alive = TRUE
    /\ pc = "idle"
    /\ cur = NoCall

\* The next add_outputs call of the script.
BystanderAddOutputs ==
    /\ Len(chans) < Len(BystanderScript)
    /\ LET call == BystanderScript[Len(chans) + 1]
       IN  Register(call.key[1], call.key[2], call.kinds)

\* The caller makes the script's registrations in order and is otherwise free
\* to call flush and collect_results, or to drop the runner, at any time.
BystanderNext ==
    \/ BystanderAddOutputs
    \/ Flush
    \/ \E b \in BlockTags, x \in TxIds : CollectCall(b, x)
    \/ CollectRecv
    \/ CollectReturn
    \/ DropRunner
    \/ \E t \in DOMAIN tasks : TaskStart(t)
    \/ \E t \in DOMAIN tasks : TaskStep(t)
    \/ \E t \in DOMAIN tasks : TaskFinish(t)

BystanderSpec == BystanderInit /\ [][BystanderNext]_vars

\* ------------------------------------------------- two scripted call sequences
\* A threshold no registration of the scripts reaches, and one that the first
\* registration of the second script reaches.
ScenarioThreshold == 10
SplitThreshold == 2

\* The output lists the caller registers, in order, for distinct transactions:
\* under ScenarioThreshold one transaction of three outputs, the last
\* encrypted to no key of the runner; under SplitThreshold a transaction of two
\* outputs and then one of a single output.
Script(threshold) ==
    IF threshold = ScenarioThreshold
    THEN << <<"k1", "k2", "kx">> >>
    ELSE << <<"k2", "kx">>, <<"k1">> >>

\* BatchRunner::new with the two keys and one of the two thresholds.
ScenarioInit ==
    /\ batch_size_threshold \in {ScenarioThreshold, SplitThreshold}
    /\ acc = BatchNew([i \in DOMAIN KeyPairs |-> KeyPairs[i][1]],
                      [i \in DOMAIN KeyPairs |-> KeyPairs[i][2]])
    /\ strategy = "WithUsage"
    /\ running_usage = 0
    /\ pending_results = [k \in ResultKeys |-> NoChan]
    /\ chans = << >>
    /\ tasks = << >>
    /\ alive = TRUE
    /\ pc = "idle"
    /\ cur = NoCall

\* The next add_outputs call of the script, for a transaction not yet registered.
ScenarioAddOutputs(block_tag, txid) ==
    /\ Len(chans) < Len(Script(batch_size_threshold))
    /\ \A c \in DOMAIN chans : chans[c].key # << block_tag, txid >>
    /\ AddOutputs(block_tag, txid, Script(batch_size_threshold)[Len(chans) + 1])

\* The caller makes the script's registrations and is otherwise free to call
\* flush and collect_results at any time; the pool runs what is submitted.
ScenarioNext ==
    \/ \E b \in BlockTags, x \in TxIds : ScenarioAddOutputs(b, x)
    \/ Flush
    \/ \E b \in BlockTags, x \in TxIds : CollectCall(b, x)
    \/ CollectRecv
    \/ CollectReturn
    \/ \E t \in DOMAIN tasks : TaskStart(t)
    \/ \E t \in DOMAIN tasks : TaskStep(t)
    \/ \E t \in DOMAIN tasks : TaskFinish(t)

ScenarioSpec == ScenarioInit /\ [][ScenarioNext]_vars

\* ------------------------------------------------------------ any key list
\* The (tag, ivk) sequences a runner may be constructed with: none, one pair,
\* two pairs, and two tags sharing one ivk.
KeyPairLists ==
    { << >>,
      << <<"a1", "k1">> >>,
      << <<"a1", "k1">>, <<"a2", "k2">> >>,
      << <<"a1", "k1">>, <<"a2", "k1">> >> }

\* The assertion of Batch::new fails.
BatchNewPanics(tags, ivks) == Len(tags) # Len(ivks)

\* The first half of unzip().
UnzipTags(pairs) == [i \in DOMAIN pairs |-> pairs[i][1]]

\* unzip() collecting the ivks into a set-like vector without repetitions.
UnzipIvks_Dedup(pairs) ==
    IF \E i, j \in DOMAIN pairs : i < j /\ pairs[i][2] = pairs[j][2]
    THEN << pairs[1][2] >>
    ELSE [i \in DOMAIN pairs |-> pairs[i][2]]

\* The second half of unzip().
UnzipIvks(pairs) == [i \in DOMAIN pairs |-> pairs[i][2]]

\* BatchRunner::new for any of the key lists and either scripted threshold;
\* a construction on which Batch::new panics yields no runner.
KeyListInit ==
    /\ batch_size_threshold \in {ScenarioThreshold, SplitThreshold}
    /\ \E pairs \in KeyPairLists :
          /\ ~BatchNewPanics(UnzipTags(pairs), UnzipIvks(pairs))
          /\ acc = BatchNew(UnzipTags(pairs), UnzipIvks(pairs))
    /\ strategy = "WithUsage"
    /\ running_usage = 0
    /\ pending_results = [k \in ResultKeys |-> NoChan]
    /\ chans = << >>
    /\ tasks = << >>
    /\ alive = TRUE
    /\ pc = "idle"
    /\ cur = NoCall

\* The scripted calls on a runner constructed with any of the key lists.
KeyListSpec == KeyListInit /\ [][ScenarioNext]_vars

\* The pool's threads keep running submitted tasks, and a receive that can
\* complete does; nothing obliges the caller to make a call.
ScenarioFairSpec ==
    /\ ScenarioSpec
    /\ WF_vars(\E t \in DOMAIN tasks : TaskStart(t))
    /\ WF_vars(\E t \in DOMAIN tasks : TaskStep(t))
    /\ WF_vars(\E t \in DOMAIN tasks : TaskFinish(t))
    /\ WF_vars(CollectRecv)

\* -------------------------------------------------------- several runners
\* Several BatchRunner<_, _, _, WithUsage> of one process, seen at their task
\* trackers.  Here running_usage is the heap of AtomicUsize allocations, a
\* handle (Arc) is a position in it; strategy is the sequence of the runners'
\* WithUsage values; a task records the handle it holds and, as `via`, the
\* runner whose tracker it was added to.

\* The batches handed to run_task: one or two outputs under the two keys.
TrackedItems ==
    { BatchAddOutputs(BatchNew(UnzipTags(KeyPairs), UnzipIvks(KeyPairs)),
                      [i \in 1..n |-> [ivk |-> "k1", reg |-> 1, pos |-> i - 1]],
                      1) : n \in 1..2 }

\* WithUsage::new handing every tracker a handle to one static counter.
WithUsageNew_Static(heap) ==
    [heap |-> IF heap = << >> THEN << 0 >> ELSE heap,
     tracker |-> [running_usage |-> 1]]

\* WithUsage::new: a fresh counter, zero, and the tracker holding its handle.
WithUsageNew(heap) ==
    [heap |-> Append(heap, 0),
     tracker |-> [running_usage |-> Len(heap) + 1]]

\* WithUsage::add_task on tracker `tracker`: the task holds a clone of the
\* tracker's handle and the footprint measured now.
WithUsageAddTask(tracker, item) ==
    [item |-> item, own_usage |-> OwnUsage(item),
     running_usage |-> tracker.running_usage, state |-> "queued"]

RunnersInit ==
    /\ batch_size_threshold = MaxThreshold
    /\ acc = BatchNew(UnzipTags(KeyPairs), UnzipIvks(KeyPairs))
    /\ strategy = << >>
    /\ running_usage = << >>
    /\ pending_results = [k \in ResultKeys |-> NoChan]
    /\ chans = << >>
    /\ tasks = << >>
    /\ alive = TRUE
    /\ pc = "idle"
    /\ cur = NoCall

\* BatchRunner::new: running_tasks is T::new().
RunnerNew ==
    /\ Len(strategy) < MaxRunners
    /\ LET r == WithUsageNew(running_usage)
       IN  /\ strategy' = Append(strategy, r.tracker)
           /\ running_usage' = r.heap
    /\ UNCHANGED << batch_size_threshold, acc, pending_results, chans, tasks,
                    alive, pc, cur >>

\* Tasks::run_task of runner r: add_task charges the footprint to the counter
\* behind the tracker's handle, and the task is spawned on the pool.
RunnerRunTask(r, item) ==
    /\ Len(tasks) < MaxSubmitted
    /\ LET task == WithUsageAddTask(strategy[r], item)
           h == strategy[r].running_usage
       IN  /\ running_usage' =
                  [running_usage EXCEPT ![h] = FetchAdd(@, task.own_usage)]
           /\ tasks' = Append(tasks, task @@ [via |-> r])
    /\ UNCHANGED << batch_size_threshold, acc, strategy, pending_results,
                    chans, alive, pc, cur >>

\* WithUsageTask::run on a pool thread: the item is run, then the footprint
\* is subtracted from the counter behind the task's handle.
TrackedTaskRun(t) ==
    /\ tasks[t].state = "queued"
    /\ tasks' = [tasks EXCEPT ![t].state = "done"]
    /\ running_usage' =
          [running_usage EXCEPT
              ![tasks[t].running_usage] = FetchSub(@, tasks[t].own_usage)]
    /\ UNCHANGED << batch_size_threshold, acc, strategy, pending_results,
                    chans, alive, pc, cur >>

RunnersNext ==
    \/ RunnerNew
    \/ \E r \in DOMAIN strategy, item \in TrackedItems : RunnerRunTask(r, item)
    \/ \E t \in DOMAIN tasks : TrackedTaskRun(t)

RunnersSpec == RunnersInit /\ [][RunnersNext]_vars

\* ----------------------------------------------------- a measured receiver
\* BatchReceiver::dynamic_usage measuring the receiver `rx` of a channel by
\* whole blocks: an item in the last, partly filled block is not counted.
BatchReceiverDynamicUsage_Floor(rx) ==
    LET num_items == Len(rx.queue)
        num_blocks == num_items \div ITEMS_PER_BLOCK
        block_size == PTR_SIZE + ITEMS_PER_BLOCK * (ITEM_SIZE + ATOMIC_USIZE_SIZE)
    IN  num_blocks * block_size

\* BatchReceiver::dynamic_usage of the receiver `rx` of a channel.  The items
\* counted are in memory, so neither the sum nor the product leaves usize.
BatchReceiverDynamicUsage(rx) ==
    LET num_items == Len(rx.queue)
        num_blocks == (num_items + ITEMS_PER_BLOCK - 1) \div ITEMS_PER_BLOCK
        block_size == PTR_SIZE + ITEMS_PER_BLOCK * (ITEM_SIZE + ATOMIC_USIZE_SIZE)
    IN  num_blocks * block_size

\* The outputs of the measured transaction: as many as the queue may hold,
\* encrypted to the runner's two keys in turn.
MeasuredOutputs ==
    [i \in 1..MaxQueued |-> IF i % 2 = 1 THEN "k1" ELSE "k2"]

\* One receiver is pending, under any key, for a transaction whose outputs all
\* match; no result has been sent and nothing has been measured.
ReceiverInit ==
    /\ batch_size_threshold = MaxThreshold
    /\ acc = BatchNew(UnzipTags(KeyPairs), UnzipIvks(KeyPairs))
    /\ strategy = "WithUsage"
    /\ running_usage = 0
    /\ \E key \in ResultKeys :
          /\ chans = << NewChannel(key, MeasuredOutputs, MaxQueued) >>
          /\ pending_results = [k \in ResultKeys |->
                                   IF k = key THEN 1 ELSE NoChan]
    /\ tasks = << >>
    /\ alive = TRUE
    /\ pc = "idle"
    /\ cur = NoCall

\* A worker sends the result for the transaction's next output and drops that
\* output's sender.  Nothing receives from a pending receiver: collect_results
\* takes it out of pending_results first.
ReceiverSend ==
    /\ Len(chans[1].queue) < MaxQueued
    /\ LET i == Len(chans[1].queue) + 1
           output == [ivk |-> MeasuredOutputs[i], reg |-> 1, pos |-> i - 1]
           item == [output_index |-> i - 1,
                    value |-> TryDecrypt(acc.ivks, output)]
       IN  chans' = [Send(chans, 1, item) EXCEPT ![1].senders = @ - 1]
    /\ UNCHANGED << batch_size_threshold, acc, strategy, running_usage,
                    pending_results, tasks, alive, pc, cur >>

\* dynamic_usage is called on the pending receiver; cur keeps the number of
\* items that were queued and the value returned.
ReceiverMeasure ==
    /\ cur' = [n |-> Len(chans[1].queue),
               usage |-> BatchReceiverDynamicUsage(chans[1])]
    /\ UNCHANGED << batch_size_threshold, acc, strategy, running_usage,
                    pending_results, chans, tasks, alive, pc >>

ReceiverNext ==
    \/ ReceiverSend
    \/ ReceiverMeasure

ReceiverSpec == ReceiverInit /\ [][ReceiverNext]_vars

\* ----------------------------------------------------- a disciplined caller
\* A caller that keeps the runner for the whole run and registers a
\* (block_tag, txid) only when no receiver is pending for it: never registered,
\* or collected since.
DisciplinedAddOutputs(block_tag, txid, kinds) ==
    /\ << block_tag, txid >> \in ResultKeys
    /\ pending_results[<< block_tag, txid >>] = NoChan
    /\ AddOutputs(block_tag, txid, kinds)

DisciplinedNext ==
    \/ \E b \in BlockTags, x \in TxIds, kinds \in OutputLists :
          DisciplinedAddOutputs(b, x, kinds)
    \/ Flush
    \/ \E b \in BlockTags, x \in TxIds : CollectCall(b, x)
    \/ CollectRecv
    \/ CollectReturn
    \/ \E t \in DOMAIN tasks : TaskStart(t)
    \/ \E t \in DOMAIN tasks : TaskStep(t)
    \/ \E t \in DOMAIN tasks : TaskFinish(t)

DisciplinedSpec == Init /\ [][DisciplinedNext]_vars

\* The pool's threads keep running submitted tasks, and a receive that can
\* complete does; nothing obliges the caller to make a call.
DisciplinedFairSpec ==
    /\ DisciplinedSpec
    /\ WF_vars(\E t \in DOMAIN tasks : TaskStart(t))
    /\ WF_vars(\E t \in DOMAIN tasks : TaskStep(t))
    /\ WF_vars(\E t \in DOMAIN tasks : TaskFinish(t))
    /\ WF_vars(CollectRecv)

\* The disciplined caller may also drop the runner, between two calls.
DisciplinedDropNext ==
    \/ DisciplinedNext
    \/ DropRunner

DisciplinedDropSpec == Init /\ [][DisciplinedDropNext]_vars

\* ================================================================== claims
\* Whether an output encrypted to `kind` decrypts under a key of the runner,
\* and the tag that was paired with the first such key at construction.
Matches(kind) == \E k \in DOMAIN KeyPairs : KeyPairs[k][2] = kind
TagOf(kind) ==
    KeyPairs[CHOOSE k \in DOMAIN KeyPairs :
                /\ KeyPairs[k][2] = kind
                /\ \A j \in 1..(k - 1) : KeyPairs[j][2] # kind][1]

\* The outputs of the registration (add_outputs call) that created channel c.
RegOutputs(c) == chans[c].outs

\* collect_results is about to return cur.map: its iterator has ended.
ReadyToReturn ==
    /\ pc = "collecting"
    /\ chans[cur.chan].queue = << >>
    /\ chans[cur.chan].senders = 0

\* The tasks whose batch holds an output of the registration of channel c.
TasksOf(c) ==
    { t \in DOMAIN tasks :
        \E i \in DOMAIN tasks[t].item.repliers :
            tasks[t].item.repliers[i].value = c }

\* The output that a collected note was decrypted from.
SourceKind(v) == RegOutputs(v.note[1])[v.note[2] + 1]

\* C1 (completeness, as stated): whenever collect_results returns for a
\* registered transaction, the returned map has an entry at the index of every
\* output of that registration that decrypts under a key of the runner, and the
\* entry carries the tag of that key.
C1_Completeness ==
    ReadyToReturn =>
        \A i \in DOMAIN RegOutputs(cur.chan) :
            Matches(RegOutputs(cur.chan)[i]) =>
                /\ << cur.txid, i - 1 >> \in DOMAIN cur.map
                /\ cur.map[<< cur.txid, i - 1 >>].ivk_tag
                      = TagOf(RegOutputs(cur.chan)[i])

\* C2 (soundness): every entry of the map being collected was decrypted from
\* an output that matches a key of the runner, and its tag is the tag paired at
\* construction with the key that decrypted it; the recipient is that key's.
C2_Soundness ==
    pc = "collecting" =>
        \A k \in DOMAIN cur.map :
            /\ Matches(SourceKind(cur.map[k]))
            /\ cur.map[k].ivk_tag = TagOf(SourceKind(cur.map[k]))
            /\ cur.map[k].recipient = SourceKind(cur.map[k])

\* A collect_results call is about to return a map with an entry tagged by the
\* second key, for a registration that also holds a non-matching output.
C2_Witness ==
    /\ ReadyToReturn
    /\ \E k \in DOMAIN cur.map : cur.map[k].ivk_tag = "a2"
    /\ \E i \in DOMAIN RegOutputs(cur.chan) : ~Matches(RegOutputs(cur.chan)[i])
    /\ \A i \in DOMAIN RegOutputs(cur.chan) :
          ~Matches(RegOutputs(cur.chan)[i]) =>
              << cur.txid, i - 1 >> \notin DOMAIN cur.map

\* C3 (no cross-attribution): the receiver being drained was registered under
\* exactly the (block_tag, txid) of the call, and every item queued on a channel
\* or collected from it was decrypted from an output registered with that
\* channel.
C3_NoCrossAttribution ==
    /\ \A c \in DOMAIN chans :
          \A n \in DOMAIN chans[c].queue : chans[c].queue[n].value.note[1] = c
    /\ pc = "collecting" =>
          /\ chans[cur.chan].key = << cur.block_tag, cur.txid >>
          /\ \A k \in DOMAIN cur.map :
                k[1] = cur.txid /\ cur.map[k].note[1] = cur.chan

\* A call returns a non-empty map for a transaction whose batch also held a
\* matching output of the same txid registered under another block tag.
C3_Witness ==
    /\ ReadyToReturn
    /\ cur.map # << >>
    /\ \E t \in TasksOf(cur.chan) :
          \E i \in DOMAIN tasks[t].item.repliers :
             LET c == tasks[t].item.repliers[i].value
             IN  /\ c # cur.chan
                 /\ chans[c].key[2] = cur.txid
                 /\ chans[c].key[1] # cur.block_tag
                 /\ Matches(tasks[t].item.outputs[i].ivk)
                 /\ tasks[t].idx > i

C5_NoDuplication ==
    \A c \in DOMAIN chans :
        \A m, n \in DOMAIN chans[c].sent :
            chans[c].sent[m].output_index = chans[c].sent[n].output_index => m = n

\* Two results have been sent on one channel and the call for it is returning.
C5_Witness ==
    /\ ReadyToReturn
    /\ Len(chans[cur.chan].sent) = 2
    /\ Cardinality(DOMAIN cur.map) = 2

\* Batch::run of task t has returned.
RunCompleted(t) ==
    tasks[t].state = "done" \/ tasks[t].idx > Len(tasks[t].item.outputs)

Blocked ==
    /\ pc = "collecting"
    /\ SendersIn(acc.repliers, cur.chan) > 0

\* C7 as stated: no collect_results call returns for a (block_tag, txid) of
\* which some registered output is still in the accumulator.
C7_Original ==
    ReadyToReturn =>
        \A i \in DOMAIN acc.repliers :
            chans[acc.repliers[i].value].key # << cur.block_tag, cur.txid >>

\* C7 (amended): a collect_results call whose receiver (the one of the latest
\* registration of the key) has a sender still in the accumulator never
\* returns: the caller stays in the call and the accumulator is never flushed.
C7_BlocksForever ==
    [][Blocked => (Blocked' /\ ~ReadyToReturn' /\ acc' = acc)]_vars

\* A collect_results call is blocked on the accumulator while the pool is idle.
C7_Witness ==
    /\ Blocked
    /\ \A t \in DOMAIN tasks : tasks[t].state = "done"

\* The step is an add_outputs call that takes the accumulator from below the
\* threshold to at least the threshold.
CrossesThreshold ==
    /\ \E b \in BlockTags, x \in TxIds, kinds \in OutputLists :
          /\ AddOutputs(b, x, kinds)
          /\ Len(acc.outputs) + Len(kinds) >= batch_size_threshold
    /\ Len(acc.outputs) < batch_size_threshold

\* C8 (threshold): such a call submits exactly one batch, holding what was
\* accumulated and the call's outputs, and leaves an empty accumulator with
\* the same tags and ivks.
C8_Threshold ==
    [][CrossesThreshold =>
         /\ Len(tasks') = Len(tasks) + 1
         /\ SubSeq(tasks', 1, Len(tasks)) = tasks
         /\ Len(tasks'[Len(tasks')].item.outputs)
               = Len(acc.outputs) + Len(chans'[Len(chans')].outs)
         /\ SubSeq(tasks'[Len(tasks')].item.outputs, 1, Len(acc.outputs))
               = acc.outputs
         /\ acc'.outputs = << >> /\ acc'.repliers = << >>
         /\ acc'.tags = acc.tags /\ acc'.ivks = acc.ivks]_vars

\* A batch was dispatched by the threshold with outputs of two calls in it.
C8_Witness ==
    /\ batch_size_threshold > 0
    /\ BatchIsEmpty(acc)
    /\ \E t \in DOMAIN tasks :
          /\ Len(tasks[t].item.outputs) >= batch_size_threshold
          /\ tasks[t].state = "queued"
          /\ \E i, j \in DOMAIN tasks[t].item.repliers :
                tasks[t].item.repliers[i].value # tasks[t].item.repliers[j].value

\* A batch holds its outputs in registration order, each with its replier.
InRegistrationOrder(b) ==
    /\ Len(b.repliers) = Len(b.outputs)
    /\ \A i \in DOMAIN b.outputs :
          /\ b.outputs[i].ivk = RegOutputs(b.outputs[i].reg)[b.outputs[i].pos + 1]
          /\ b.repliers[i] = [output_index |-> b.outputs[i].pos,
                               value |-> b.outputs[i].reg]
    /\ \A i, j \in DOMAIN b.outputs :
          i < j => \/ b.outputs[i].reg < b.outputs[j].reg
                   \/ /\ b.outputs[i].reg = b.outputs[j].reg
                      /\ b.outputs[i].pos < b.outputs[j].pos

\* Every output registered so far is in a batch of ts.
AllDispatched(cs, ts) ==
    \A c \in DOMAIN cs :
        \A i \in DOMAIN cs[c].outs :
            \E t \in DOMAIN ts :
                \E j \in DOMAIN ts[t].item.outputs :
                    ts[t].item.outputs[j] = [ivk |-> cs[c].outs[i], reg |-> c, pos |-> i - 1]

\* C9 (flush): flush on a non-empty accumulator submits exactly one batch, the
\* accumulator's outputs and repliers in registration order, after which every
\* registered output is in a dispatched batch and the accumulator is empty
\* with the same tags and ivks.
C9_Flush ==
    [][(Flush /\ ~BatchIsEmpty(acc)) =>
         /\ Len(tasks') = Len(tasks) + 1
         /\ SubSeq(tasks', 1, Len(tasks)) = tasks
         /\ tasks'[Len(tasks')].item.outputs = acc.outputs
         /\ tasks'[Len(tasks')].item.repliers = acc.repliers
         /\ tasks'[Len(tasks')].state = "queued"
         /\ InRegistrationOrder(tasks'[Len(tasks')].item)
         /\ AllDispatched(chans', tasks')
         /\ acc'.outputs = << >> /\ acc'.repliers = << >>
         /\ acc'.tags = acc.tags /\ acc'.ivks = acc.ivks]_vars

\* A batch below the threshold is queued: an explicit flush dispatched it.
C9_Witness ==
    /\ alive
    /\ BatchIsEmpty(acc)
    /\ \E t \in DOMAIN tasks :
          /\ tasks[t].state = "queued"
          /\ Len(tasks[t].item.outputs) < batch_size_threshold

\* C10 (empty flush): flush on an empty accumulator changes nothing (no task,
\* same accumulator, pending_results and running_usage), and no submitted
\* batch is ever empty.
C10_EmptyFlush ==
    /\ [][(Flush /\ BatchIsEmpty(acc)) => UNCHANGED vars]_vars
    /\ [](\A t \in DOMAIN tasks : ~BatchIsEmpty(tasks[t].item))

\* flush can be called on an empty accumulator while a task is charged to the
\* usage counter and a receiver is pending.
C10_Witness ==
    /\ alive /\ pc = "idle"
    /\ BatchIsEmpty(acc)
    /\ running_usage > 0
    /\ \E k \in ResultKeys : pending_results[k] # NoChan

\* No add_outputs call has been made for the key.
NeverRegistered(key) == \A c \in DOMAIN chans : chans[c].key # key

\* C11 (absent key): a key that was never passed to add_outputs has no pending
\* receiver, and a collect_results call for it is a single step of the caller
\* that changes nothing of the runner, the channels or the pool and leaves the
\* caller out of the call with nothing collected (the empty map).
C11_AbsentKey ==
    /\ [](\A key \in ResultKeys :
             NeverRegistered(key) => pending_results[key] = NoChan)
    /\ [][\A b \in BlockTags, x \in TxIds :
             (CollectCall(b, x) /\ NeverRegistered(<< b, x >>)) =>
                 /\ UNCHANGED vars
                 /\ pc' = "idle"
                 /\ cur'.map = << >>]_vars

\* collect_results can be called for a key never registered while another key
\* has a pending receiver and a batch is running.
C11_Witness ==
    /\ alive /\ pc = "idle"
    /\ \E key \in ResultKeys : NeverRegistered(key)
    /\ \E key \in ResultKeys : pending_results[key] # NoChan
    /\ Running # {}

\* The caller holds the runner and is not inside a call.
CallerIdle == alive /\ pc = "idle"

\* The step is an add_outputs or a flush call.
Submission ==
    \/ Flush
    \/ \E b \in BlockTags, x \in TxIds, kinds \in OutputLists :
          AddOutputs(b, x, kinds)

\* C12 (asynchronous submission): whatever the pool is doing, a caller that is
\* not inside a call can take a flush step and (while registrations remain) an
\* add_outputs step; each is one step of the caller that returns with the
\* caller idle, touches no task submitted before, and leaves the task it
\* submits queued, to be run by the pool.
C12_NonBlocking ==
    /\ [](CallerIdle => ENABLED Flush)
    /\ []((CallerIdle /\ Len(chans) < MaxRegs) =>
             ENABLED (\E b \in BlockTags, x \in TxIds, kinds \in OutputLists :
                        AddOutputs(b, x, kinds)))
    /\ [][Submission =>
             /\ pc' = "idle"
             /\ Len(tasks') \in {Len(tasks), Len(tasks) + 1}
             /\ \A t \in DOMAIN tasks : tasks'[t] = tasks[t]
             /\ \A t \in DOMAIN tasks' \ DOMAIN tasks :
                    tasks'[t].state = "queued"]_vars

\* Two submitted batches are in the middle of their runs at the same time while
\* the caller is free to call flush.
C12_Witness ==
    /\ CallerIdle
    /\ Cardinality(Running) = 2
    /\ \A t \in Running :
          tasks[t].idx > 1 /\ tasks[t].idx <= Len(tasks[t].item.outputs)

\* C13 (scenario): with keys K1, K2 and the threshold of 10, whenever
\* collect_results(B, T) returns for the transaction T registered with outputs
\* [o0 -> K1, o1 -> K2, o2 -> neither], the accumulator has been flushed and the
\* map is exactly {(T,0): the note of o0 tagged with K1's tag, (T,1): the note
\* of o1 tagged with K2's tag}; there is no entry for index 2.
C13_Scenario ==
    (batch_size_threshold = ScenarioThreshold /\ ReadyToReturn) =>
        /\ BatchIsEmpty(acc) /\ Len(tasks) = 1
        /\ DOMAIN cur.map = { << cur.txid, 0 >>, << cur.txid, 1 >> }
        /\ cur.map[<< cur.txid, 0 >>]
              = [ivk_tag |-> "a1", recipient |-> "k1", note |-> << cur.chan, 0 >>]
        /\ cur.map[<< cur.txid, 1 >>]
              = [ivk_tag |-> "a2", recipient |-> "k2", note |-> << cur.chan, 1 >>]

\* add_outputs(B, T, [o0,o1,o2]) and flush were called, the batch ran to its
\* end, and collect_results(B, T) is returning a map of two entries.
C13_Witness ==
    /\ batch_size_threshold = ScenarioThreshold
    /\ ReadyToReturn
    /\ RegOutputs(cur.chan) = <<"k1", "k2", "kx">>
    /\ Cardinality(DOMAIN cur.map) = 2
    /\ tasks[1].state = "done"

\* The second script is running: threshold 2, T1 registered with two outputs
\* and (once Len(chans) = 2) T2 with one.
Split == batch_size_threshold = SplitThreshold /\ chans # << >>

\* collect_results is in progress on the receiver of channel c.
Collecting(c) == pc = "collecting" /\ cur.chan = c

\* C14 (threshold split), safety: the registration of T1 dispatches a batch of
\* exactly T1's two outputs; the output of T2 is in the accumulator until a
\* second batch holds it, and only an explicit flush submits that batch;
\* collect_results(T1) does not return before the first batch has run, and
\* collect_results(T2) does not return before the second batch exists and has
\* run.
C14_SplitSafety ==
    /\ Split =>
          /\ Len(tasks) >= 1
          /\ tasks[1].item.repliers
                = << [output_index |-> 0, value |-> 1],
                     [output_index |-> 1, value |-> 1] >>
    /\ (Split /\ Len(chans) = 2) =>
          IF Len(tasks) = 1
          THEN acc.repliers = << [output_index |-> 0, value |-> 2] >>
          ELSE /\ BatchIsEmpty(acc)
               /\ tasks[2].item.repliers = << [output_index |-> 0, value |-> 2] >>
    /\ (Split /\ ReadyToReturn /\ cur.chan = 1) => RunCompleted(1)
    /\ (Split /\ ReadyToReturn /\ cur.chan = 2) =>
          Len(tasks) = 2 /\ RunCompleted(2)

\* C14 (threshold split): the safety part; the second batch is submitted by a
\* flush step and by no other; and a collect_results(T1) call in progress
\* always comes to return, whether or not flush is ever called.
C14_ThresholdSplit ==
    /\ []C14_SplitSafety
    /\ [][(Split /\ Len(tasks') = 2 /\ Len(tasks) = 1) =>
             (Flush /\ Len(chans) = 2)]_vars
    /\ ((Split /\ Collecting(1)) ~> (ReadyToReturn /\ cur.chan = 1))

\* collect_results(T1) is returning the note of T1 while the output of T2
\* is still in the accumulator: no flush has been called.
C14_Witness ==
    /\ Split
    /\ ReadyToReturn /\ cur.chan = 1
    /\ cur.map # << >>
    /\ Len(tasks) = 1
    /\ Len(acc.outputs) = 1

\* Channel c belongs to the latest add_outputs call for its key.
LatestRegistration(c) ==
    \A d \in DOMAIN chans : chans[d].key = chans[c].key => d <= c

\* The step is an add_outputs call for a key whose receiver is pending.
DuplicateRegistration ==
    \E b \in BlockTags, x \in TxIds, kinds \in OutputLists :
        AddOutputs(b, x, kinds) /\ pending_results[<< b, x >>] # NoChan

\* C15 (duplicate registration), the states: every key has at most one live
\* receiver, the one of its latest registration; the receiver pending for a key
\* or being drained is that one, and every collected entry is a note of that
\* registration.
C15_LatestOnly ==
    /\ \A c \in DOMAIN chans : chans[c].rx => LatestRegistration(c)
    /\ \A k \in ResultKeys :
          pending_results[k] # NoChan =>
              /\ chans[pending_results[k]].key = k
              /\ chans[pending_results[k]].rx
    /\ pc = "collecting" =>
          /\ LatestRegistration(cur.chan)
          /\ \A k \in DOMAIN cur.map : cur.map[k].note[1] = cur.chan

\* C15 (duplicate registration): the states above; an add_outputs call for a
\* key whose receiver is pending drops that receiver and makes the receiver of
\* the new channel the pending one; and once its receiver is dropped a channel
\* takes no further item and none of its items is received: what was sent on
\* it stays in its queue, discarded.
C15_DuplicateRegistration ==
    /\ []C15_LatestOnly
    /\ [][DuplicateRegistration =>
             \E k \in ResultKeys :
                /\ pending_results[k] # NoChan
                /\ ~chans'[pending_results[k]].rx
                /\ pending_results'[k] = Len(chans')
                /\ Len(chans') = Len(chans) + 1
                /\ chans'[Len(chans')].key = k
                /\ chans'[Len(chans')].rx
                /\ \A j \in ResultKeys \ {k} :
                       pending_results'[j] = pending_results[j]]_vars
    /\ [][\A c \in DOMAIN chans :
             ~chans[c].rx =>
                 /\ ~chans'[c].rx
                 /\ chans'[c].queue = chans[c].queue
                 /\ chans'[c].sent = chans[c].sent]_vars

\* collect_results is returning the note of the second registration of a key
\* while the note sent for its first registration lies in the dropped channel.
C15_Witness ==
    /\ ReadyToReturn
    /\ cur.chan = 2
    /\ chans[1].key = chans[2].key
    /\ chans[1].queue # << >>
    /\ cur.map # << >>

\* C16 (as stated): a send of a running batch fails only when the runner has
\* been dropped; no step in which a send fails is taken while the runner is
\* alive.
C16_SendFailsOnlyAfterDrop ==
    [][\A t \in DOMAIN tasks :
          (~tasks[t].broke /\ tasks'[t].broke) => ~alive]_vars

\* The sum of the recorded footprints of the tasks of ts whose decrement has
\* not been executed.
RECURSIVE ChargedUsage(_)
ChargedUsage(ts) ==
    IF ts = << >> THEN 0
    ELSE (IF Head(ts).state # "done" THEN Head(ts).own_usage ELSE 0)
         + ChargedUsage(Tail(ts))

\* C17 (usage accounting), the states: the counter is the sum of the recorded
\* footprints of the tasks added and not yet decremented.
C17_CounterIsSum == running_usage = ChargedUsage(tasks)

\* C17 (usage accounting): the counter equals that sum in every state; a task's
\* recorded footprint is what add_task measured and never changes; the counter
\* rises only when a task is added, by that task's footprint; it falls only
\* when a task whose inner run has ended executes its decrement, by exactly
\* that task's footprint; and a task that has done so never acts again.
C17_UsageAccounting ==
    /\ []C17_CounterIsSum
    /\ [][\A t \in DOMAIN tasks :
             /\ tasks'[t].own_usage = tasks[t].own_usage
             /\ tasks[t].state = "done" => tasks'[t] = tasks[t]
             /\ (tasks[t].state # "done" /\ tasks'[t].state = "done") =>
                   /\ tasks[t].state = "running"
                   /\ tasks[t].idx > Len(tasks[t].item.outputs)
                   /\ running_usage' = running_usage - tasks[t].own_usage]_vars
    /\ [][\A t \in DOMAIN tasks' \ DOMAIN tasks :
             /\ tasks'[t].own_usage = OwnUsage(tasks'[t].item)
             /\ running_usage' = running_usage + tasks'[t].own_usage]_vars
    /\ [][running_usage' # running_usage =>
             \/ Len(tasks') = Len(tasks) + 1
             \/ \E t \in DOMAIN tasks :
                   tasks[t].state # "done" /\ tasks'[t].state = "done"]_vars

\* One task has given its footprint back while another, of a different
\* footprint, is running and still charged.
C17_Witness ==
    \E t, u \in DOMAIN tasks :
        /\ tasks[t].state = "done"
        /\ tasks[u].state = "running"
        /\ tasks[u].own_usage # tasks[t].own_usage
        /\ running_usage = tasks[u].own_usage

\* A task, and the tasks of the pool, without the recorded footprints.
Untracked(task) == [task EXCEPT !.own_usage = 0]
UntrackedTasks(ts) == [t \in DOMAIN ts |-> Untracked(ts[t])]

\* The batch a submission step hands to add_task: the accumulator, with the
\* outputs and repliers of the add_outputs call when the step is one.
SubmittedItem ==
    IF Len(chans') > Len(chans)
    THEN LET c == Len(chans')
         IN  BatchAddOutputs(acc,
                             [i \in DOMAIN chans'[c].outs |->
                                 [ivk |-> chans'[c].outs[i], reg |-> c, pos |-> i - 1]],
                             c)
    ELSE acc

\* C18 (interchangeable strategies), the states: the usage-tracked quantities
\* are functions of the rest of the state (each task's footprint is what its
\* strategy's add_task records for its batch, the counter is the sum of the
\* charged footprints), and under the untracked strategy all of them are zero.
C18_UsageDetermined ==
    /\ \A t \in DOMAIN tasks :
          tasks[t].own_usage = AddTask(strategy, tasks[t].item).own_usage
    /\ running_usage = ChargedUsage(tasks)
    /\ strategy = "Untracked" =>
          /\ running_usage = 0
          /\ \A t \in DOMAIN tasks : tasks[t].own_usage = 0

\* C18 (interchangeable strategies): with either strategy in use, the task a
\* submission adds is, but for its footprint, what add_task of each of the two
\* strategies makes of the accumulated batch, and the tasks before it are
\* untouched; the finish of a task changes nothing but the task's state and
\* the counter; and the usage-tracked quantities are determined as above.  As
\* no other step reads or writes the footprints or the counter, the batches
\* submitted and the maps collected are those of the other strategy for the
\* same calls and schedule.
C18_Interchangeable ==
    /\ []C18_UsageDetermined
    /\ [][Len(tasks') > Len(tasks) =>
             /\ Len(tasks') = Len(tasks) + 1
             /\ SubSeq(tasks', 1, Len(tasks)) = tasks
             /\ \A strat \in Strategies :
                    Untracked(tasks'[Len(tasks')])
                       = Untracked(AddTask(strat, SubmittedItem))]_vars
    /\ [][\A t \in DOMAIN tasks :
             TaskFinish(t) =>
                 /\ tasks' = [tasks EXCEPT ![t].state = "done"]
                 /\ UNCHANGED << acc, pending_results, chans, alive, pc, cur >>]_vars
    /\ [][(Len(tasks') = Len(tasks) /\ \A t \in DOMAIN tasks : ~TaskFinish(t)) =>
             /\ running_usage' = running_usage
             /\ \A t \in DOMAIN tasks : tasks'[t].own_usage = tasks[t].own_usage]_vars

\* A runner of the untracked strategy has submitted two batches, one finished
\* and one running, and a collect_results call is returning a note, while the
\* usage reported is zero.
C18_Witness ==
    /\ strategy = "Untracked"
    /\ ReadyToReturn
    /\ cur.map # << >>
    /\ \E t, u \in DOMAIN tasks :
          tasks[t].state = "done" /\ tasks[u].state = "running"
    /\ running_usage = 0

\* The tags and ivks handed to BatchRunner::new, in the order given.
ConstructedTags == [i \in DOMAIN KeyPairs |-> KeyPairs[i][1]]
ConstructedIvks == [i \in DOMAIN KeyPairs |-> KeyPairs[i][2]]

\* A batch holds exactly the runner's keys, in order, tag i beside ivk i.
HoldsKeySet(b) ==
    /\ b.tags = ConstructedTags
    /\ b.ivks = ConstructedIvks
    /\ Len(b.tags) = Len(b.ivks)

\* C19 (key set): in every reachable state the accumulator and every batch
\* that was dispatched, queued, running or finished, hold exactly the tags and
\* ivks the runner was constructed with, in the same order, and as many tags
\* as ivks.
C19_KeySet ==
    /\ HoldsKeySet(acc)
    /\ \A t \in DOMAIN tasks : HoldsKeySet(tasks[t].item)

\* Two batches have been dispatched, the second from an accumulator that flush
\* had built, and the accumulator flush built after it is in place.
C19_Witness ==
    /\ alive
    /\ Len(tasks) = 2
    /\ tasks[1].state = "done"
    /\ BatchIsEmpty(acc)
    /\ acc.tags # << >>

\* The repliers task t still holds: all of them while it is queued, those from
\* its loop position on while it runs, none once its loop has ended.
RemainingRepliers(task) ==
    IF task.state = "queued" THEN task.item.repliers
    ELSE IF task.state = "running"
    THEN SubSeq(task.item.repliers, task.idx, Len(task.item.repliers))
    ELSE << >>

\* The senders of channel c held by the tasks of ts.
RECURSIVE HeldByTasks(_, _)
HeldByTasks(ts, c) ==
    IF ts = << >> THEN 0
    ELSE SendersIn(RemainingRepliers(Head(ts)), c) + HeldByTasks(Tail(ts), c)

\* C20 (completion), the states: the senders of a channel are those of the
\* repliers in the accumulator and of the repliers the tasks have not reached;
\* a batch whose run has ended holds none: each of its repliers has sent its
\* result or has been dropped.
C20_RepliersAccounted ==
    \A c \in DOMAIN chans :
        chans[c].senders = SendersIn(acc.repliers, c) + HeldByTasks(tasks, c)

\* The step is an iteration of a running batch at an output that decrypts,
\* taken after the runner was dropped.
SendAfterDrop(t) ==
    /\ ~alive
    /\ TaskStep(t)
    /\ Matches(tasks[t].item.outputs[tasks[t].idx].ivk)

\* C20 (completion): the accounting above; a send attempted after the runner
\* was dropped fails, delivers nothing and ends the loop with the remaining
\* repliers dropped; and under fair scheduling of the pool every dispatched
\* batch comes to the end of its run and of its task, whatever the caller
\* does: whether or not its transactions are collected and whether or not
\* the runner is dropped.
C20_Completion ==
    /\ []C20_RepliersAccounted
    /\ [][\A t \in DOMAIN tasks :
             SendAfterDrop(t) =>
                 /\ tasks'[t].broke
                 /\ tasks'[t].idx > Len(tasks[t].item.outputs)
                 /\ \A c \in DOMAIN chans : chans'[c].sent = chans[c].sent]_vars
    /\ \A t \in 1..MaxRegs :
          (Len(tasks) >= t) ~> (Len(tasks) >= t /\ tasks[t].state = "done")

\* The runner was dropped while a batch of transactions registered once each
\* was running; the batch met a failing send, left its loop and finished, and
\* no receiver of its transactions was ever drained.
C20_Witness ==
    /\ ~alive
    /\ \A c, d \in DOMAIN chans : chans[c].key = chans[d].key => c = d
    /\ \E t \in DOMAIN tasks :
          /\ tasks[t].state = "done"
          /\ tasks[t].broke
          /\ \E i \in DOMAIN tasks[t].item.repliers :
                chans[tasks[t].item.repliers[i].value].sent # << >>
    /\ \A t \in DOMAIN tasks : tasks[t].state = "done"
    /\ \A c \in DOMAIN chans : chans[c].senders = 0

\* The items sent so far on the channel of replier r that carry r's index.
SentFor(r) ==
    { n \in DOMAIN chans[r.value].sent :
        chans[r.value].sent[n].output_index = r.output_index }

\* C21 as stated: for each output of a batch that decrypts, exactly one item
\* has been sent on its reply sender once the batch has run.
C21_Original ==
    \A t \in DOMAIN tasks :
        tasks[t].state = "done" =>
            \A i \in DOMAIN tasks[t].item.outputs :
                Matches(tasks[t].item.outputs[i].ivk) =>
                    Cardinality(SentFor(tasks[t].item.repliers[i])) = 1

\* The index of the first key of batch b that decrypts its output i.
KeyIndex(b, i) ==
    CHOOSE k \in DOMAIN b.ivks :
        /\ b.ivks[k] = b.outputs[i].ivk
        /\ \A j \in 1..(k - 1) : b.ivks[j] # b.outputs[i].ivk

\* What the iteration of task t at its output i does to the channels and to
\* the loop, by the three cases of the output.
StepEffect(t, i) ==
    LET b == tasks[t].item
        r == b.repliers[i]
        c == r.value
        others == \A d \in DOMAIN chans : d # c => chans'[d] = chans[d]
    IN  IF ~Matches(b.outputs[i].ivk)
        THEN /\ chans'[c] = [chans[c] EXCEPT !.senders = @ - 1]
             /\ others
             /\ tasks'[t].idx = i + 1 /\ ~tasks'[t].broke
        ELSE IF chans[c].rx
        THEN LET item == [output_index |-> r.output_index,
                          value |-> [ivk_tag |-> b.tags[KeyIndex(b, i)],
                                     recipient |-> b.outputs[i].ivk,
                                     note |-> << b.outputs[i].reg,
                                                 b.outputs[i].pos >>]]
             IN  /\ chans'[c] = [chans[c] EXCEPT !.senders = @ - 1,
                                                 !.queue = Append(@, item),
                                                 !.sent = Append(@, item)]
                 /\ others
                 /\ tasks'[t].idx = i + 1 /\ ~tasks'[t].broke
        ELSE /\ \A d \in DOMAIN chans :
                   /\ chans'[d].sent = chans[d].sent
                   /\ chans'[d].queue = chans[d].queue
             /\ tasks'[t].broke
             /\ tasks'[t].idx > Len(b.outputs)

\* C21 (amended): the loop visits the outputs in batch order, starting at the
\* first; at an output that matches under key index k and whose receiver
\* exists, it sends exactly one item on that output's reply sender, carrying
\* the replier's output_index and tags[k], and drops that sender; at an output
\* that does not match it sends nothing and only drops that output's sender;
\* at a matching output whose receiver is gone nothing is sent and the loop
\* ends, so the outputs after it are not visited.
C21_PerOutputStep ==
    /\ [][\A t \in DOMAIN tasks :
             TaskStart(t) => tasks'[t].idx = 1]_vars
    /\ [][\A t \in DOMAIN tasks :
             TaskStep(t) => StepEffect(t, tasks[t].idx)]_vars

\* A batch of three outputs has run to its end without a failed send: the
\* first output matched no key, the other two each sent one item.
C21_Witness ==
    \E t \in DOMAIN tasks :
        /\ tasks[t].state = "done" /\ ~tasks[t].broke
        /\ Len(tasks[t].item.outputs) = 3
        /\ SentFor(tasks[t].item.repliers[1]) = {}
        /\ Cardinality(SentFor(tasks[t].item.repliers[2])) = 1
        /\ Cardinality(SentFor(tasks[t].item.repliers[3])) = 1

\* The step is the iteration of task t in which a send fails.
SendFails(t) == TaskStep(t) /\ ~tasks[t].broke /\ tasks'[t].broke

\* Batch b stopped at a failed send: up to some matching output f every
\* matching output has its one item sent, and from f on nothing was sent.
StoppedAtFailure(b) ==
    \E f \in DOMAIN b.outputs :
        /\ Matches(b.outputs[f].ivk)
        /\ \A i \in DOMAIN b.outputs :
              IF i < f
              THEN Matches(b.outputs[i].ivk) =>
                      Cardinality(SentFor(b.repliers[i])) = 1
              ELSE SentFor(b.repliers[i]) = {}

\* C22 (stop at a failed send), the states: a batch in which a send failed
\* has sent nothing for the failing output or any output after it, whatever
\* their transactions, and holds no replier any more; and a collect_results
\* call that is about to return returns every item ever sent on its channel.
C22_StoppedBatch ==
    /\ \A t \in DOMAIN tasks :
          tasks[t].broke =>
              /\ StoppedAtFailure(tasks[t].item)
              /\ RemainingRepliers(tasks[t]) = << >>
    /\ ReadyToReturn =>
          \A n \in DOMAIN chans[cur.chan].sent :
              LET item == chans[cur.chan].sent[n]
              IN  /\ << cur.txid, item.output_index >> \in DOMAIN cur.map
                  /\ cur.map[<< cur.txid, item.output_index >>] = item.value

\* C22 (stop at a failed send): the states above; the step in which a send
\* fails sends nothing, drops every replier the batch still holds and ends the
\* loop; and the items queued on a channel stay there until its receiver takes
\* them: a queue changes only by a send appending to it or by collect_results
\* taking its head into the map.
C22_StopOnFailure ==
    /\ []C22_StoppedBatch
    /\ [][\A t \in DOMAIN tasks :
             SendFails(t) =>
                 /\ tasks'[t].idx > Len(tasks[t].item.outputs)
                 /\ \A c \in DOMAIN chans :
                       /\ chans'[c].sent = chans[c].sent
                       /\ chans'[c].queue = chans[c].queue
                       /\ chans'[c].senders
                             = chans[c].senders
                               - SendersIn(RemainingRepliers(tasks[t]), c)]_vars
    /\ [][\A c \in DOMAIN chans :
             chans'[c].queue # chans[c].queue =>
                 \/ /\ chans'[c].queue = Append(chans[c].queue,
                                                 chans'[c].sent[Len(chans'[c].sent)])
                    /\ Len(chans'[c].sent) = Len(chans[c].sent) + 1
                 \/ /\ CollectRecv /\ c = cur.chan
                    /\ chans'[c].queue = Tail(chans[c].queue)]_vars

\* With the runner alive, a batch of three transactions stopped at the failed
\* send for the second: nothing was sent for the third, and collect_results
\* for the first is returning the note that was sent before the failure.
C22_Witness ==
    /\ alive
    /\ ReadyToReturn
    /\ cur.chan = 1
    /\ DOMAIN cur.map = { << "T2", 0 >> }
    /\ \E t \in TasksOf(1) :
          /\ tasks[t].broke
          /\ Len(tasks[t].item.outputs) = 3
          /\ chans[3].sent = << >>
          /\ chans[3].senders = 0

\* How many places of batch b hold output o.
PlacesIn(b, o) == Cardinality({ i \in DOMAIN b.outputs : b.outputs[i] = o })

\* How many places of the batches of ts hold output o.
RECURSIVE PlacesInTasks(_, _)
PlacesInTasks(ts, o) ==
    IF ts = << >> THEN 0
    ELSE PlacesIn(Head(ts).item, o) + PlacesInTasks(Tail(ts), o)

\* Output i (from 1) of the add_outputs call that created channel c.
RegisteredOutput(c, i) == [ivk |-> chans[c].outs[i], reg |-> c, pos |-> i - 1]

\* C23 (conservation), the states: while the runner exists every registered
\* output is at exactly one place of exactly one batch, the accumulator or a
\* dispatched batch (once the runner is dropped, what its accumulator held is
\* gone with it and the dispatched outputs are still at one place each); and
\* every batch holds registered outputs only, each beside its own replier.
C23_OnePlace ==
    /\ \A c \in DOMAIN chans :
          \A i \in DOMAIN chans[c].outs :
              LET n == PlacesIn(acc, RegisteredOutput(c, i))
                         + PlacesInTasks(tasks, RegisteredOutput(c, i))
              IN  IF alive THEN n = 1 ELSE n <= 1
    /\ InRegistrationOrder(acc)
    /\ \A t \in DOMAIN tasks : InRegistrationOrder(tasks[t].item)

\* C23 (conservation): the states above; the batch of a dispatched task is
\* never modified; and a task is run once: it leaves the queue once, its loop
\* position only advances, each iteration by one output, and once finished it
\* stays finished.
C23_Conservation ==
    /\ []C23_OnePlace
    /\ [][\A t \in DOMAIN tasks :
             /\ tasks'[t].item = tasks[t].item
             /\ tasks[t].state # "queued" => tasks'[t].state # "queued"
             /\ tasks[t].state = "done" => tasks'[t].state = "done"
             /\ tasks'[t].idx >= tasks[t].idx
             /\ (TaskStep(t) /\ ~tasks'[t].broke) =>
                   tasks'[t].idx = tasks[t].idx + 1]_vars

\* The registered outputs are spread over the accumulator and a batch that is
\* in the middle of its run.
C23_Witness ==
    /\ alive
    /\ ~BatchIsEmpty(acc)
    /\ \E t \in DOMAIN tasks :
          /\ tasks[t].state = "running"
          /\ tasks[t].idx > 1
          /\ tasks[t].idx <= Len(tasks[t].item.outputs)

\* Batch b has as many repliers as outputs, and its i-th replier answers for
\* its i-th output: it holds the sender of the channel of that output's
\* add_outputs call and the output's position in that call.
RepliersMatchOutputs(b) ==
    /\ Len(b.outputs) = Len(b.repliers)
    /\ \A i \in DOMAIN b.repliers :
          /\ i \in DOMAIN b.outputs
          /\ b.repliers[i].value = b.outputs[i].reg
          /\ b.repliers[i].output_index = b.outputs[i].pos

\* C24 (the assertion of Batch::run): in every reachable state the accumulator
\* and every dispatched batch, whether queued, entering its run or past it,
\* have as many repliers as outputs, the i-th replier belonging to the i-th
\* output; so assert_eq!(outputs.len(), repliers.len()) holds whenever a run
\* starts.
C24_AssertionHolds ==
    /\ RepliersMatchOutputs(acc)
    /\ \A t \in DOMAIN tasks : RepliersMatchOutputs(tasks[t].item)

\* A batch holding the outputs of two add_outputs calls, one of them of three
\* outputs, has passed the assertion and is running.
C24_Witness ==
    \E t \in DOMAIN tasks :
        /\ tasks[t].state = "running"
        /\ Len(tasks[t].item.outputs) = 4
        /\ tasks[t].item.repliers[1].value # tasks[t].item.repliers[4].value

\* C25 (the assertion of Batch::new): Batch::new fails exactly when it is given
\* different numbers of tags and ivks; the two halves of unzip have the length
\* of the list of pairs, so BatchRunner::new passes the assertion for every
\* key list; and in every reachable state the tags and ivks of the
\* accumulator, which flush hands to Batch::new, and of every dispatched batch
\* are equally many, pair i of the key list at place i of both.
C25_BatchNewAssertion ==
    /\ \A p, q \in KeyPairLists :
          BatchNewPanics(UnzipTags(p), UnzipIvks(q)) <=> Len(p) # Len(q)
    /\ \A p \in KeyPairLists : ~BatchNewPanics(UnzipTags(p), UnzipIvks(p))
    /\ ~BatchNewPanics(acc.tags, acc.ivks)
    /\ \E p \in KeyPairLists :
          /\ acc.tags = UnzipTags(p) /\ acc.ivks = UnzipIvks(p)
          /\ \A t \in DOMAIN tasks :
                /\ tasks[t].item.tags = UnzipTags(p)
                /\ tasks[t].item.ivks = UnzipIvks(p)

\* A runner constructed with two tags for one ivk has flushed twice: the
\* accumulator in place was built by the second flush from the keys of the one
\* built by the first.
C25_Witness ==
    /\ Len(tasks) = 2
    /\ acc.tags = <<"a1", "a2">>
    /\ acc.ivks = <<"k1", "k1">>
    /\ BatchIsEmpty(acc)

\* The receiver of the latest add_outputs call for the key has been taken by a
\* collect_results call that has returned.
Collected(key) ==
    \E c \in DOMAIN chans :
        chans[c].key = key /\ LatestRegistration(c) /\ ~chans[c].rx

\* C26 (pending-receiver lifecycle): an add_outputs call leaves the receiver of
\* the channel it created pending under its (block_tag, txid) and touches no
\* other entry; a collect_results call leaves no entry under its key and
\* touches no other entry; an absent entry becomes present only by an
\* add_outputs call for its key; so once a key's receiver has been collected
\* and no add_outputs for the key has followed, the key has no entry and a
\* collect_results call for it is a single step that changes nothing and
\* leaves the caller out of the call with the empty map.
C26_PendingLifecycle ==
    /\ [][\A b \in BlockTags, x \in TxIds, kinds \in OutputLists :
             AddOutputs(b, x, kinds) =>
                 /\ pending_results' =
                        [pending_results EXCEPT ![<< b, x >>] = Len(chans')]
                 /\ Len(chans') = Len(chans) + 1
                 /\ chans'[Len(chans')].rx]_vars
    /\ [][\A b \in BlockTags, x \in TxIds :
             CollectCall(b, x) =>
                 pending_results' =
                     [pending_results EXCEPT ![<< b, x >>] = NoChan]]_vars
    /\ [][\A key \in ResultKeys :
             (pending_results[key] = NoChan /\ pending_results'[key] # NoChan)
                 => \E kinds \in OutputLists :
                        AddOutputs(key[1], key[2], kinds)]_vars
    /\ [](\A key \in ResultKeys :
             (alive /\ Collected(key)) => pending_results[key] = NoChan)
    /\ [][\A b \in BlockTags, x \in TxIds :
             (CollectCall(b, x) /\ Collected(<< b, x >>)) =>
                 /\ UNCHANGED vars
                 /\ pc' = "idle"
                 /\ cur'.map = << >>]_vars

\* A key's results have been collected, something among them, the caller is
\* out of the call and holds the runner, and the key has not been registered
\* again: a second collect_results for the key can be called.
C26_Witness ==
    /\ CallerIdle
    /\ \E c \in DOMAIN chans :
          /\ LatestRegistration(c)
          /\ Collected(chans[c].key)
          /\ chans[c].sent # << >>
          /\ chans[c].queue = << >>
          /\ ENABLED CollectCall(chans[c].key[1], chans[c].key[2])

\* The tasks of ts that were added to the tracker of runner r.
AddedVia(ts, r) == SelectSeq(ts, LAMBDA task : task.via = r)

\* C27 as stated (one process-wide counter): whatever runner a task was
\* submitted through, its footprint is charged to the same counter, so any two
\* tasks hold handles to one counter and no second counter exists.
C27_Original ==
    /\ Len(running_usage) <= 1
    /\ \A t, u \in DOMAIN tasks :
          tasks[t].running_usage = tasks[u].running_usage

\* C27 (one counter per tracker): every runner's tracker holds a counter of
\* its own, created with it; a task holds the handle of the tracker it was
\* added to; and each runner's counter is the sum of the footprints of the
\* tasks added to that runner's tracker whose decrement has not run, whatever
\* was submitted through the other runners.
C27_CounterPerRunner ==
    /\ Len(running_usage) = Len(strategy)
    /\ \A r, q \in DOMAIN strategy :
          r # q => strategy[r].running_usage # strategy[q].running_usage
    /\ \A t \in DOMAIN tasks :
          tasks[t].running_usage = strategy[tasks[t].via].running_usage
    /\ \A r \in DOMAIN strategy :
          running_usage[strategy[r].running_usage] =
              ChargedUsage(AddedVia(tasks, r))

\* Two runners each have a task charged, of different footprints, and a task
\* of the first runner has completed: the two counters differ.
C27_Witness ==
    /\ Len(strategy) = 2
    /\ \E t, u, v \in DOMAIN tasks :
          /\ tasks[t].via = 1 /\ tasks[t].state = "queued"
          /\ tasks[u].via = 2 /\ tasks[u].state = "queued"
          /\ tasks[v].via = 1 /\ tasks[v].state = "done"
          /\ tasks[t].own_usage # tasks[u].own_usage
    /\ running_usage[strategy[1].running_usage]
          # running_usage[strategy[2].running_usage]

\* The least number of blocks of d items that hold n items.
CeilDiv(n, d) == CHOOSE q \in 0..n : q * d >= n /\ (q = 0 \/ (q - 1) * d < n)

\* Bytes of one block: the pointer to the next block and 31 slots, each an
\* item and its atomic state word.
BlockBytes == PTR_SIZE + 31 * (ITEM_SIZE + ATOMIC_USIZE_SIZE)

\* n items end in the same block as m items.
SameBlock(n, m) == n > 0 /\ m > 0 /\ (n - 1) \div 31 = (m - 1) \div 31

\* C28 (a pending receiver's heap usage): whatever the receiver's key and the
\* items queued, the usage reported for a receiver with n queued items is
\* ceil(n / 31) blocks of (pointer + 31 * (item + atomic word)) bytes; it is 0
\* for the empty queue; a usage reported earlier, when fewer items were
\* queued, is not larger, and is equal when both counts are within the same
\* block of 31.
C28_ReceiverUsage ==
    LET n == Len(chans[1].queue)
        usage == BatchReceiverDynamicUsage(chans[1])
    IN  /\ usage = CeilDiv(n, 31) * BlockBytes
        /\ n = 0 => usage = 0
        /\ n > 0 => usage > 0
        /\ cur # NoCall =>
              /\ cur.usage = CeilDiv(cur.n, 31) * BlockBytes
              /\ cur.n <= n
              /\ cur.usage <= usage
              /\ SameBlock(cur.n, n) => cur.usage = usage
              /\ (cur.n > 0 /\ ~SameBlock(cur.n, n)) => cur.usage < usage

\* The receiver was measured with 31 items queued, one full block, and holds
\* 32 now: the usage has gone from one block to two.
C28_Witness ==
    /\ cur # NoCall
    /\ cur.n = 31
    /\ cur.usage = BlockBytes
    /\ Len(chans[1].queue) = 32
    /\ BatchReceiverDynamicUsage(chans[1]) = 2 * BlockBytes

\* The map being collected has an entry for exactly the matching outputs of
\* the registration of channel c, each the note of its output under the tag
\* of the key that decrypts it.
ExactEntries(c) ==
    /\ DOMAIN cur.map =
          { << chans[c].key[2], i - 1 >> :
              i \in { j \in DOMAIN RegOutputs(c) : Matches(RegOutputs(c)[j]) } }
    /\ \A i \in DOMAIN RegOutputs(c) :
          Matches(RegOutputs(c)[i]) =>
              LET v == cur.map[<< chans[c].key[2], i - 1 >>]
              IN  /\ v.note = << c, i - 1 >>
                  /\ v.ivk_tag = TagOf(RegOutputs(c)[i])
                  /\ v.recipient = RegOutputs(c)[i]

\* C29 (conditional completeness): with a caller that keeps the runner and
\* registers no key whose receiver is pending, a collect_results call that
\* is about to return returns an entry for exactly the matching outputs of its
\* transaction; and under fair scheduling of the pool a collect_results call
\* in progress for a transaction none of whose outputs is in the accumulator
\* comes to return, with exactly those entries.
C29_ConditionalCompleteness ==
    /\ [](ReadyToReturn => ExactEntries(cur.chan))
    /\ \A c \in 1..MaxRegs :
          (Collecting(c) /\ SendersIn(acc.repliers, c) = 0)
              ~> (Collecting(c) /\ ReadyToReturn /\ ExactEntries(c))

\* A collect_results call is about to return exactly the two notes of a
\* transaction of three outputs, every registered output dispatched, while
\* another transaction's receiver is pending.
C29_Witness ==
    /\ alive /\ ReadyToReturn
    /\ Len(RegOutputs(cur.chan)) = 3
    /\ Cardinality(DOMAIN cur.map) = 2
    /\ ExactEntries(cur.chan)
    /\ BatchIsEmpty(acc)
    /\ \E k \in ResultKeys : pending_results[k] # NoChan

\* Task t has run to the end of its batch and sent one item for each matching
\* output.
RanInFull(t) ==
    /\ tasks[t].state = "done"
    /\ ~tasks[t].broke
    /\ \A i \in DOMAIN tasks[t].item.outputs :
          Matches(tasks[t].item.outputs[i].ivk) =>
              Cardinality(SentFor(tasks[t].item.repliers[i])) = 1

\* C30 (no failed send under discipline): with a caller that registers no key
\* whose receiver is pending, a send of a running batch fails only once the
\* runner has been dropped; so while the caller holds the runner no batch has
\* stopped at a failed send, every sender still held belongs to a channel
\* whose receiver exists, and every batch whose run has ended has sent the
\* result of each of its matching outputs.
C30_NoFailedSend ==
    /\ [][\A t \in DOMAIN tasks : SendFails(t) => ~alive]_vars
    /\ [](alive =>
             /\ \A t \in DOMAIN tasks : ~tasks[t].broke
             /\ \A c \in DOMAIN chans : chans[c].senders > 0 => chans[c].rx
             /\ \A t \in DOMAIN tasks :
                   tasks[t].state = "done" => RanInFull(t))

\* The caller holds the runner; a key was registered, collected and
\* registered again, and the batches of both registrations have run in full,
\* the second with a matching output.
C30_Witness ==
    /\ alive
    /\ \E c, d \in DOMAIN chans :
          /\ c < d
          /\ chans[c].key = chans[d].key
          /\ chans[d].sent # << >>
          /\ TasksOf(c) # {} /\ TasksOf(d) # {}
          /\ \A t \in TasksOf(c) \cup TasksOf(d) : RanInFull(t)

\* The map that the registration of channel c determines: one entry per
\* matching output, computed from the call's arguments and the runner's keys.
ExpectedMap(c) ==
    [k \in { << chans[c].key[2], i - 1 >> :
               i \in { j \in DOMAIN RegOutputs(c) : Matches(RegOutputs(c)[j]) } }
       |-> [ivk_tag |-> TagOf(RegOutputs(c)[k[2] + 1]),
            recipient |-> RegOutputs(c)[k[2] + 1],
            note |-> << c, k[2] >>]]

\* The step is a step of a pool thread.
PoolStep ==
    \E t \in DOMAIN tasks : TaskStart(t) \/ TaskStep(t) \/ TaskFinish(t)

\* C31 (scheduling independence): with a caller that registers no key whose
\* receiver is pending, a step of the pool changes nothing the caller's calls
\* depend on (the accumulator, the pending receivers, the batches' contents,
\* the call in progress) other than by delivering results; while a
\* collect_results call collects, its map is part of the map its registration
\* determines; and the map it returns is that map, whichever way the pool's
\* threads have interleaved and however many of them ran at once.
C31_SchedulingIndependence ==
    /\ [][PoolStep =>
             /\ UNCHANGED << batch_size_threshold, acc, pending_results, alive,
                             pc, cur >>
             /\ \A t \in DOMAIN tasks : tasks'[t].item = tasks[t].item
             /\ \A c \in DOMAIN chans :
                   /\ chans'[c].key = chans[c].key
                   /\ chans'[c].outs = chans[c].outs
                   /\ chans'[c].rx = chans[c].rx]_vars
    /\ [](pc = "collecting" =>
             \A k \in DOMAIN cur.map :
                 /\ k \in DOMAIN ExpectedMap(cur.chan)
                 /\ cur.map[k] = ExpectedMap(cur.chan)[k])
    /\ [][CollectReturn => cur.map = ExpectedMap(cur.chan)]_vars

\* A collect_results call is about to return the two notes of the second
\* registration, whose batch ran to its end while the batch submitted before
\* it is still inside its loop.
C31_Witness ==
    /\ ReadyToReturn /\ ENABLED CollectReturn
    /\ cur.chan = 2
    /\ Cardinality(DOMAIN cur.map) = 2
    /\ cur.map = ExpectedMap(2)
    /\ Len(tasks) = 2
    /\ tasks[1].state = "running" /\ tasks[1].idx <= Len(tasks[1].item.outputs)
    /\ tasks[2].state = "done"

\* How many of the outputs at the positions `places` of `outputs` were
\* registered by the add_outputs call that created channel c.
OutputsOf(outputs, places, c) ==
    Cardinality({ i \in places : outputs[i].reg = c })

\* The positions of task t's batch that its run has yet to process: all while
\* it is queued, those from the loop's position on while it runs, none once
\* the loop has ended and the batch is gone.
Unprocessed(t) ==
    IF tasks[t].state = "queued" THEN DOMAIN tasks[t].item.outputs
    ELSE IF tasks[t].state = "running"
    THEN tasks[t].idx..Len(tasks[t].item.outputs)
    ELSE {}

\* The outputs of the registration of channel c that are in the accumulator
\* or in a dispatched batch and not yet processed, counted over tasks 1..n.
RECURSIVE PendingOutputs(_, _)
PendingOutputs(c, n) ==
    IF n = 0 THEN OutputsOf(acc.outputs, DOMAIN acc.outputs, c)
    ELSE OutputsOf(tasks[n].item.outputs, Unprocessed(n), c)
         + PendingOutputs(c, n - 1)

\* C32 (sender count): for every registration, the live senders of its channel
\* are as many as its outputs that are in the accumulator or in a dispatched
\* batch whose run has not yet processed them, the caller's own sender not
\* among them; the channel is disconnected exactly when there is no such
\* output, and a collect_results call that has emptied the queue can return
\* exactly then.
C32_SenderCount ==
    /\ \A c \in DOMAIN chans :
          /\ chans[c].senders = PendingOutputs(c, Len(tasks))
          /\ chans[c].senders = 0 <=> PendingOutputs(c, Len(tasks)) = 0
          /\ chans[c].senders <= Len(RegOutputs(c))
    /\ (pc = "collecting" /\ chans[cur.chan].queue = << >>) =>
          (ENABLED CollectReturn <=> PendingOutputs(cur.chan, Len(tasks)) = 0)

\* A batch is inside its loop past the first of a registration's three
\* outputs, two senders of that channel left, while the one output of
\* another registration waits in the accumulator with its one sender.
C32_Witness ==
    \E c, d \in DOMAIN chans :
        /\ Len(RegOutputs(c)) = 3
        /\ chans[c].senders = 2
        /\ PendingOutputs(c, Len(tasks)) = 2
        /\ \E t \in TasksOf(c) : tasks[t].state = "running" /\ tasks[t].idx = 2
        /\ chans[d].senders = 1
        /\ OutputsOf(acc.outputs, DOMAIN acc.outputs, d) = 1

\* The outputs that the add_outputs call of channel c appended, as they stand
\* in a batch.
CallOutputs(c) ==
    [i \in DOMAIN RegOutputs(c) |->
        [ivk |-> RegOutputs(c)[i], reg |-> c, pos |-> i - 1]]

\* C33 (accumulator bound): between the caller's calls the accumulator is
\* empty or holds fewer outputs than batch_size_threshold; with a threshold of
\* zero it is always empty, every add_outputs call with a non-empty list has
\* dispatched a batch of exactly its outputs with exactly their repliers, and
\* there is no other batch.
C33_AccumulatorBound ==
    /\ BatchIsEmpty(acc) \/ Len(acc.outputs) < batch_size_threshold
    /\ batch_size_threshold = 0 =>
          /\ BatchIsEmpty(acc)
          /\ \A c \in DOMAIN chans :
                RegOutputs(c) # << >> =>
                    \E t \in DOMAIN tasks :
                        /\ tasks[t].item.outputs = CallOutputs(c)
                        /\ tasks[t].item.repliers =
                              [i \in DOMAIN RegOutputs(c) |->
                                  [output_index |-> i - 1, value |-> c]]
          /\ Len(tasks) =
                Cardinality({ c \in DOMAIN chans : RegOutputs(c) # << >> })

\* With a threshold of zero two add_outputs calls, of three outputs and of
\* one, have returned: two batches, of three outputs and of one.
C33_Witness ==
    /\ batch_size_threshold = 0
    /\ CallerIdle
    /\ Len(chans) = 2 /\ Len(tasks) = 2
    /\ \E t, u \in DOMAIN tasks :
          /\ Len(tasks[t].item.outputs) = 3
          /\ Len(tasks[u].item.outputs) = 1

\* Batch b holds all outputs of the add_outputs call of channel c, side by
\* side and in the call's order, from place `from` on.
HoldsCallAt(b, c, from) ==
    /\ from + Len(RegOutputs(c)) - 1 <= Len(b.outputs)
    /\ SubSeq(b.outputs, from, from + Len(RegOutputs(c)) - 1) = CallOutputs(c)

HoldsCall(b, c) == \E from \in DOMAIN b.outputs : HoldsCallAt(b, c, from)

\* Batch b holds an output of the add_outputs call of channel c.
HoldsSome(b, c) == \E i \in DOMAIN b.outputs : b.outputs[i].reg = c

\* C34 (a call's outputs are not split): a batch, the accumulator or a
\* dispatched one, that holds an output of an add_outputs call holds all of
\* that call's outputs, side by side in the call's order, and no other batch
\* holds any; and what a dispatched batch holds before the outputs of the
\* last call in it is fewer than batch_size_threshold (or nothing), so the
\* batch itself may exceed the threshold.
C34_CallNotSplit ==
    /\ \A c \in DOMAIN chans :
          /\ HoldsSome(acc, c) =>
                /\ HoldsCall(acc, c)
                /\ \A t \in DOMAIN tasks : ~HoldsSome(tasks[t].item, c)
          /\ \A t \in DOMAIN tasks :
                HoldsSome(tasks[t].item, c) =>
                    /\ HoldsCall(tasks[t].item, c)
                    /\ \A u \in DOMAIN tasks :
                          HoldsSome(tasks[u].item, c) => u = t
    /\ \A t \in DOMAIN tasks :
          LET b == tasks[t].item
              last == b.outputs[Len(b.outputs)].reg
              before == Len(b.outputs) - Len(RegOutputs(last))
          IN  /\ HoldsCallAt(b, last, before + 1)
              /\ before = 0 \/ before < batch_size_threshold

\* A dispatched batch holds four outputs with a threshold of two: the one
\* output accumulated by the first call and the three of the call that
\* reached the threshold.
C34_Witness ==
    /\ batch_size_threshold = 2
    /\ \E t \in DOMAIN tasks :
          /\ Len(tasks[t].item.outputs) = 4
          /\ HoldsCallAt(tasks[t].item, 1, 1)
          /\ HoldsCallAt(tasks[t].item, 2, 2)
          /\ Len(RegOutputs(2)) = 3

\* The step is an add_outputs call with an empty output list.
EmptyRegistration(block_tag, txid) == AddOutputs(block_tag, txid, << >>)

\* C35 (empty registration): an add_outputs call with no outputs makes the
\* receiver of a new channel the pending entry of its key, dropping the
\* receiver that was pending for it, if any, and changes no other entry; the
\* accumulator, the submitted tasks and the usage counter are unchanged; the
\* new channel has no sender and nothing queued.  So a collect_results call
\* on such a registration can return at once, with the empty map, whatever
\* is in the accumulator.
C35_EmptyRegistration ==
    /\ [][\A b \in BlockTags, x \in TxIds :
             EmptyRegistration(b, x) =>
                 LET c == Len(chans) + 1
                     old == pending_results[<< b, x >>]
                 IN  /\ pending_results' =
                            [pending_results EXCEPT ![<< b, x >>] = c]
                     /\ UNCHANGED << acc, tasks, running_usage >>
                     /\ Len(chans') = c
                     /\ chans'[c].rx
                     /\ chans'[c].senders = 0
                     /\ chans'[c].queue = << >>
                     /\ old # NoChan => ~chans'[old].rx]_vars
    /\ [](\A c \in DOMAIN chans :
             (Collecting(c) /\ RegOutputs(c) = << >>) =>
                 /\ ReadyToReturn
                 /\ ENABLED CollectReturn
                 /\ cur.map = << >>)

\* collect_results is returning the empty map for a registration without
\* outputs that replaced an earlier registration of its key, while an output
\* is still in the accumulator: no flush was needed.
C35_Witness ==
    /\ ReadyToReturn
    /\ RegOutputs(cur.chan) = << >>
    /\ cur.map = << >>
    /\ cur.chan = 2
    /\ chans[1].key = chans[2].key
    /\ ~BatchIsEmpty(acc)
    /\ tasks = << >>

\* The sum of the recorded footprints of all tasks of ts, and of those whose
\* decrement has been executed.
RECURSIVE AddedUsage(_)
AddedUsage(ts) ==
    IF ts = << >> THEN 0 ELSE Head(ts).own_usage + AddedUsage(Tail(ts))

RECURSIVE SubtractedUsage(_)
SubtractedUsage(ts) ==
    IF ts = << >> THEN 0
    ELSE (IF Head(ts).state = "done" THEN Head(ts).own_usage ELSE 0)
         + SubtractedUsage(Tail(ts))

\* Every submitted task has run and given its footprint back.
Quiescent == \A t \in DOMAIN tasks : tasks[t].state = "done"

\* C36 (usage quiescence): the counter is what was added less what was
\* subtracted, computed without wrapping at either end of usize: the
\* subtracted total never exceeds the added one, the amount the next
\* decrement of any unfinished task takes is covered by the counter, and the
\* added total fits the word; so whenever every submitted task has finished
\* its run and its decrement the counter is exactly zero.
C36_Quiescence ==
    /\ SubtractedUsage(tasks) <= AddedUsage(tasks)
    /\ AddedUsage(tasks) < UsizeModulus
    /\ running_usage = AddedUsage(tasks) - SubtractedUsage(tasks)
    /\ \A t \in DOMAIN tasks :
          tasks[t].state # "done" => tasks[t].own_usage <= running_usage
    /\ Quiescent => running_usage = 0

\* Two batches of different footprints were charged and both have given
\* their footprint back: the counter is zero again.
C36_Witness ==
    /\ Len(tasks) = 2
    /\ Quiescent
    /\ tasks[1].own_usage # tasks[2].own_usage
    /\ AddedUsage(tasks) > 0
    /\ running_usage = 0

\* The step is a step of a collect_results call: its entry, one received
\* item, or its return.
CollectStep ==
    \/ \E b \in BlockTags, x \in TxIds : CollectCall(b, x)
    \/ CollectRecv
    \/ CollectReturn

\* C37 (frame of collect_results): no step of a collect_results call changes
\* the accumulator, the submitted tasks, the usage counter, the threshold or
\* whether the runner exists; its entry changes at most the pending entry of
\* its own key and the later steps change no pending entry; of the channels
\* it touches only its own: it takes items out of its queue and, returning,
\* drops its receiver.
C37_CollectFrame ==
    /\ [][CollectStep =>
             UNCHANGED << acc, tasks, running_usage, batch_size_threshold,
                          strategy, alive >>]_vars
    /\ [][\A b \in BlockTags, x \in TxIds :
             CollectCall(b, x) =>
                 /\ \A k \in ResultKeys \ {<< b, x >>} :
                       pending_results'[k] = pending_results[k]
                 /\ pending_results'[<< b, x >>] = NoChan
                 /\ chans' = chans]_vars
    /\ [][(CollectRecv \/ CollectReturn) =>
             /\ pending_results' = pending_results
             /\ \A c \in DOMAIN chans : c # cur.chan => chans'[c] = chans[c]
             /\ chans'[cur.chan].senders = chans[cur.chan].senders
             /\ chans'[cur.chan].sent = chans[cur.chan].sent]_vars

\* A collect_results call is in progress, an item received, while another
\* transaction's output waits in the accumulator, its receiver pending, and
\* a batch is dispatched.
C37_Witness ==
    /\ pc = "collecting"
    /\ cur.map # << >>
    /\ ~BatchIsEmpty(acc)
    /\ tasks # << >>
    /\ \E k \in ResultKeys :
          /\ k # << cur.block_tag, cur.txid >>
          /\ pending_results[k] # NoChan
          /\ SendersIn(acc.repliers, pending_results[k]) > 0

\* C38 (frames of flush and add_outputs): a flush call changes no pending
\* entry and no channel (no receiver is added, removed, replaced or dropped)
\* and leaves batch_size_threshold and the accumulator's tags and ivks as
\* they are; an add_outputs call changes the pending entry of the key it
\* registers and no other, drops no receiver but the one that was pending
\* for that key, and leaves the threshold, tags and ivks as they are.
C38_SubmissionFrame ==
    /\ [][Flush =>
             /\ UNCHANGED << pending_results, chans, batch_size_threshold >>
             /\ acc'.tags = acc.tags
             /\ acc'.ivks = acc.ivks]_vars
    /\ [][\A b \in BlockTags, x \in TxIds, kinds \in OutputLists :
             AddOutputs(b, x, kinds) =>
                 /\ \A k \in ResultKeys \ {<< b, x >>} :
                       pending_results'[k] = pending_results[k]
                 /\ pending_results'[<< b, x >>] \notin DOMAIN chans
                 /\ \A c \in DOMAIN chans :
                       /\ c # pending_results[<< b, x >>] => chans'[c] = chans[c]
                       /\ chans'[c].key = chans[c].key
                       /\ chans'[c].queue = chans[c].queue
                       /\ chans'[c].senders = chans[c].senders
                 /\ batch_size_threshold' = batch_size_threshold
                 /\ acc'.tags = acc.tags
                 /\ acc'.ivks = acc.ivks]_vars

\* A flush has dispatched the accumulated output of one transaction while
\* the receivers of two transactions are pending, the other registered by an
\* add_outputs call that dispatched its own batch.
C38_Witness ==
    /\ CallerIdle
    /\ batch_size_threshold = 2
    /\ Len(tasks) = 2
    /\ BatchIsEmpty(acc)
    /\ Len(tasks[1].item.outputs) = 3
    /\ Len(tasks[2].item.outputs) = 1
    /\ Cardinality({ k \in ResultKeys : pending_results[k] # NoChan }) = 2

====
